---- MODULE Spec2Model ----
(***************************************************************************)
(* Model of the scoring core of cryptofarm: the text classifier and        *)
(* priority scorer (data_processor/data_classifier.py), the project        *)
(* configuration (config.py) and the opportunity aggregator                *)
(* (data_processor/opportunity_analyzer.py).                               *)
(*                                                                         *)
(* Number representations                                                  *)
(*   - priority scores are exact rationals [n, d] in lowest terms;         *)
(*   - source weights and confidences are integer hundredths (40 = 0.4);   *)
(*   - the aggregator's floats are fixed point in units of 1/SCALE.        *)
(***************************************************************************)
EXTENDS Integers, Sequences, FiniteSets, TLC

VARIABLES
    projects,          \* ProjectConfig.projects: tier -> list of projects
    tracked_channels,  \* DataClassifier.tracked_channels (copied at construction)
    tracked_keywords,  \* DataClassifier.tracked_keywords (copied at construction)
    call,              \* the arguments of the last call
    analysis,          \* the classification the last call worked on / returned
    priority_score,    \* the result of calculate_priority_score, or NoScore
    analyzed_data,     \* table analyzed_data (joined with raw_data): kind -> rows
    db_projects,       \* table projects: id -> row
    snapshot,          \* the result of calculate_opportunity_score, or NoSnapshot
    raw_data,          \* table raw_data (joined with data_sources): id -> row
    alerts,            \* table alerts: the rows in insertion order
    today,                 \* datetime.now().date(), counted in days
    config,                \* AutomationEngine.config: the keys that are read
    running,               \* AutomationEngine.running
    workers,               \* AutomationEngine.workers: each thread's position
    task_queue,            \* AutomationEngine.task_queue
    daily_social_actions,  \* AutomationEngine.daily_social_actions
    daily_transactions,    \* AutomationEngine.daily_transactions
    last_reset_date,       \* AutomationEngine.last_reset_date
    task_history,          \* AutomationEngine.task_history
    tasks,                 \* the task dicts handed to schedule_task
    timers                 \* the threading.Timer threads not yet fired

cfgVars == <<projects, tracked_channels, tracked_keywords>>
clsVars == <<analysis, priority_score>>
dbVars == <<analyzed_data, db_projects, snapshot, raw_data, alerts>>
engVars == <<today, config, running, workers, task_queue, daily_social_actions,
             daily_transactions, last_reset_date, task_history, tasks, timers>>
vars == <<cfgVars, call, clsVars, dbVars, engVars>>

(***************************************************************************)
(* Exact rational arithmetic                                               *)
(***************************************************************************)
RECURSIVE GCD(_, _)
GCD(a, b) == IF b = 0 THEN a ELSE GCD(b, a % b)

\* the rational n/d in lowest terms (d > 0, n >= 0)
Rat(n, d) == LET g == GCD(n, d) IN IF g = 0 THEN [n |-> 0, d |-> 1] ELSE [n |-> n \div g, d |-> d \div g]

\* x * (a/b), reduced before multiplying so that no intermediate value overflows
RMul(x, a, b) ==
    LET g1 == GCD(x.n, b)
        g2 == GCD(a, x.d)
        n1 == IF g1 = 0 THEN 0 ELSE (x.n \div g1) * (a \div (IF g2 = 0 THEN 1 ELSE g2))
        d1 == IF g1 = 0 THEN 1 ELSE (x.d \div (IF g2 = 0 THEN 1 ELSE g2)) * (b \div g1)
    IN  Rat(n1, d1)

\* a/b < c/d for non-negative a, c and positive b, d, by continued fractions
RECURSIVE FracLess(_, _, _, _)
FracLess(a, b, c, d) ==
    LET qa == a \div b
        qc == c \div d
        ra == a % b
        rc == c % d
    IN  IF qa # qc THEN qa < qc
        ELSE IF rc = 0 THEN FALSE
        ELSE IF ra = 0 THEN TRUE
        ELSE FracLess(d, rc, b, ra)

RLess(x, y) == FracLess(x.n, x.d, y.n, y.d)
RLeq(x, y) == ~RLess(y, x)

One == [n |-> 1, d |-> 1]
NoScore == [n |-> 0, d |-> 0]

Range(s) == {s[i] : i \in 1..Len(s)}

(***************************************************************************)
(* Text.  A str is a sequence of characters; a character is a one-letter   *)
(* string, Cyrillic letters are written by code point ("u0441").           *)
(***************************************************************************)
UpperChars ==
    << "A", "B", "C", "D", "E", "F", "G", "H", "I", "J", "K", "L", "M", "N", "O", "P", "Q", "R", "S",
       "T", "U", "V", "W", "X", "Y", "Z", "u0410", "u0411", "u0412", "u0413", "u0414", "u0415",
       "u0416", "u0417", "u0418", "u0419", "u041a", "u041b", "u041c", "u041d", "u041e", "u041f",
       "u0420", "u0421", "u0422", "u0423", "u0424", "u0425", "u0426", "u0427", "u0428", "u0429",
       "u042a", "u042b", "u042c", "u042d", "u042e", "u042f" >>

LowerChars ==
    << "a", "b", "c", "d", "e", "f", "g", "h", "i", "j", "k", "l", "m", "n", "o", "p", "q", "r", "s",
       "t", "u", "v", "w", "x", "y", "z", "u0430", "u0431", "u0432", "u0433", "u0434", "u0435",
       "u0436", "u0437", "u0438", "u0439", "u043a", "u043b", "u043c", "u043d", "u043e", "u043f",
       "u0440", "u0441", "u0442", "u0443", "u0444", "u0445", "u0446", "u0447", "u0448", "u0449",
       "u044a", "u044b", "u044c", "u044d", "u044e", "u044f" >>

AsciiUpper == { UpperChars[i] : i \in 1..26 }
AsciiLetters == AsciiUpper \cup { LowerChars[i] : i \in 1..26 }
Digits == {"0", "1", "2", "3", "4", "5", "6", "7", "8", "9"}
HexDigits == Digits \cup {"a", "b", "c", "d", "e", "f", "A", "B", "C", "D", "E", "F"}
WordChars == AsciiLetters \cup Digits \cup {"_"}
Whitespace == {" ", "\n", "\t"}

\* payloads that are not a str
NonStrings == { <<"None">>, <<"int">> }

\* isinstance(x, str)
IsStr(x) == x \notin NonStrings

LowerOf ==
    [c \in Range(UpperChars) |->
        LowerChars[CHOOSE i \in 1..Len(UpperChars) : UpperChars[i] = c]]

\* str.lower
lower(t) == [i \in 1..Len(t) |-> IF t[i] \in DOMAIN LowerOf THEN LowerOf[t[i]] ELSE t[i]]

\* t[i:].startswith(k), i counted from 1
HasAt(t, i, k) == i + Len(k) - 1 <= Len(t) /\ SubSeq(t, i, i + Len(k) - 1) = k

\* k in t
Contains(t, k) == \E i \in 1..(Len(t) - Len(k) + 1) : SubSeq(t, i, i + Len(k) - 1) = k

\* the least and the greatest element of a non-empty set of indices
First(J) == CHOOSE j \in J : \A k \in J : j <= k
Last(J) == CHOOSE j \in J : \A k \in J : k <= j

\* str.count: occurrences of k in t from i on, leftmost first, not overlapping
RECURSIVE CountFrom(_, _, _)
CountFrom(t, k, i) ==
    LET starts == {j \in i..Len(t) : HasAt(t, j, k)}
    IN  IF starts = {} THEN 0 ELSE 1 + CountFrom(t, k, First(starts) + Len(k))

\* the first index from i on whose character is not in S
RunEnd(t, i, S) ==
    LET stops == {j \in i..Len(t) : t[j] \notin S}
    IN  IF stops # {} THEN First(stops)
        ELSE IF i > Len(t) THEN i ELSE Len(t) + 1

\* the last index up to i whose character is not in S
RunStart(t, i, S) ==
    LET stops == {j \in 1..i : t[j] \notin S}
    IN  IF stops # {} THEN Last(stops)
        ELSE IF i < 1 THEN i ELSE 0

RECURSIVE Flatten(_)
Flatten(ss) == IF ss = << >> THEN << >> ELSE Head(ss) \o Flatten(Tail(ss))

Min(a, b) == IF a < b THEN a ELSE b

\* the end (exclusive) of a match of https?://\S+ at i, or 0
UrlEnd(t, i) ==
    LET p == IF HasAt(t, i, <<"h","t","t","p","s",":","/","/">>) THEN i + 8
             ELSE IF HasAt(t, i, <<"h","t","t","p",":","/","/">>) THEN i + 7
             ELSE 0
        e == IF p = 0 THEN 0 ELSE RunEnd(t, p, {t[j] : j \in 1..Len(t)} \ Whitespace)
    IN  IF p # 0 /\ e > p THEN e ELSE 0

\* re.sub(r'https?://\S+', '', t)
RECURSIVE RemoveUrls(_, _)
RemoveUrls(t, i) ==
    LET starts == {j \in i..Len(t) : UrlEnd(t, j) # 0}
    IN  IF starts = {} THEN SubSeq(t, i, Len(t))
        ELSE SubSeq(t, i, First(starts) - 1) \o RemoveUrls(t, UrlEnd(t, First(starts)))

\* re.sub(r'\s+', ' ', t)
RECURSIVE CollapseWhitespace(_, _)
CollapseWhitespace(t, i) ==
    LET starts == {j \in i..Len(t) : t[j] \in Whitespace}
    IN  IF starts = {} THEN SubSeq(t, i, Len(t))
        ELSE SubSeq(t, i, First(starts) - 1) \o <<" ">>
                \o CollapseWhitespace(t, RunEnd(t, First(starts), Whitespace))

\* str.strip
strip(t) == SubSeq(t, RunEnd(t, 1, Whitespace), RunStart(t, Len(t), Whitespace))

(***************************************************************************)
(* config.py: ProjectConfig                                                *)
(***************************************************************************)
Tiers == <<"high_priority", "medium_priority">>

\* ProjectConfig.source_weights, in hundredths
source_weights == [official |-> 100, partner |-> 80, community |-> 60, general |-> 40]

Zeta == <<"Z","e","t","a">>
Orbit == <<"O","r","b","i","t">>
ZetaContract ==
    <<"0","x","A","b","1","2","A","b","1","2","A","b","1","2","A","b","1","2","A","b","1","2","A","b","1","2","A","b","1","2","A","b","1","2","A","b","1","2","A","b","1","2">>

\* The projects the configuration is loaded with (Config.load_projects calls
\* add_project for every entry of projects.json).
InitialProjects ==
    [high_priority |->
        << [name |-> Zeta, symbol |-> <<"Z","T","A">>,
            official_channels |-> <<"zeta_official">>,
            partner_channels |-> <<"zeta_partner">>,
            keywords |-> << <<"z","e","t","a">> >>,
            contracts |-> << ZetaContract >>] >>,
     medium_priority |->
        << [name |-> Orbit, symbol |-> <<"O","R","B">>,
            official_channels |-> <<"orbit_news">>,
            partner_channels |-> << >>,
            keywords |-> << <<"o","r","b","i","t">> >>,
            contracts |-> << >>] >>]

\* ProjectConfig.get_all_projects: every project with its tier as 'priority'
get_all_projects(prj) ==
    Flatten([k \in 1..Len(Tiers) |->
        [i \in 1..Len(prj[Tiers[k]]) |->
            [name |-> prj[Tiers[k]][i].name,
             symbol |-> prj[Tiers[k]][i].symbol,
             official_channels |-> prj[Tiers[k]][i].official_channels,
             partner_channels |-> prj[Tiers[k]][i].partner_channels,
             keywords |-> prj[Tiers[k]][i].keywords,
             contracts |-> prj[Tiers[k]][i].contracts,
             priority |-> Tiers[k]]]])

\* channels[channel] = info for every channel of the list
RECURSIVE PutChannels(_, _, _)
PutChannels(acc, chans, info) ==
    IF chans = << >> THEN acc
    ELSE PutChannels([c \in DOMAIN acc \cup {Head(chans)} |->
                         IF c = Head(chans) THEN info ELSE acc[c]],
                     Tail(chans), info)

RECURSIVE ChannelsOfProjects(_, _)
ChannelsOfProjects(ps, acc) ==
    IF ps = << >> THEN acc
    ELSE LET p == Head(ps)
             a1 == PutChannels(acc, p.official_channels,
                       [weight |-> source_weights["official"], project |-> p.name,
                        type |-> "official"])
             a2 == PutChannels(a1, p.partner_channels,
                       [weight |-> source_weights["partner"], project |-> p.name,
                        type |-> "partner"])
         IN  ChannelsOfProjects(Tail(ps), a2)

\* ProjectConfig.get_all_channels: channel -> weight, project, type
get_all_channels(prj) == ChannelsOfProjects(get_all_projects(prj), [c \in {} |-> 0])

\* keywords[keyword].append(entry), the dictionary kept in insertion order
AddKeyword(kws, kw, entry) ==
    IF \E i \in 1..Len(kws) : kws[i].keyword = kw
    THEN [i \in 1..Len(kws) |->
            IF kws[i].keyword = kw
            THEN [keyword |-> kw, projects |-> Append(kws[i].projects, entry)]
            ELSE kws[i]]
    ELSE Append(kws, [keyword |-> kw, projects |-> <<entry>>])

RECURSIVE AddKeywords(_, _, _)
AddKeywords(kws, words, entry) ==
    IF words = << >> THEN kws
    ELSE AddKeywords(AddKeyword(kws, lower(Head(words)), entry), Tail(words), entry)

RECURSIVE KeywordsOfProjects(_, _)
KeywordsOfProjects(ps, acc) ==
    IF ps = << >> THEN acc
    ELSE KeywordsOfProjects(Tail(ps),
            AddKeywords(acc, Head(ps).keywords,
                        [project |-> Head(ps).name, priority |-> Head(ps).priority]))

\* ProjectConfig.get_all_keywords: keyword -> list of (project, priority)
get_all_keywords(prj) == KeywordsOfProjects(get_all_projects(prj), << >>)

(***************************************************************************)
(* data_classifier.py: DataClassifier                                      *)
(***************************************************************************)
NoChannel == "None"

\* DataClassifier.categories, in dictionary order
categories ==
    <<
      [label |-> "active_investment",
       keywords |-> << <<"s","t","a","k","e","d">>, <<"l","o","c","k","e","d">>,
                      <<"h","o","l","d","i","n","g">>, <<"p","o","s","i","t","i","o","n">>,
                      <<"i","n","v","e","s","t","e","d">>, <<"f","a","r","m","i","n","g">> >>],
      [label |-> "testnet_participation",
       keywords |-> << <<"v","a","l","i","d","a","t","o","r">>, <<"n","o","d","e">>,
                      <<"t","e","s","t","n","e","t">>,
                      <<"u0432","u0430","u043b","u0438","u0434","u0430","u0442","u043e","u0440">>,
                      <<"u043d","u043e","u0434","u0430">>,
                      <<"u0442","u0435","u0441","u0442","u043d","u0435","u0442">> >>],
      [label |-> "project_launch",
       keywords |-> << <<"l","a","u","n","c","h">>, <<"m","a","i","n","n","e","t">>,
                      <<"g","o","i","n","g"," ","l","i","v","e">>,
                      <<"u0437","u0430","u043f","u0443","u0441","u043a">>,
                      <<"u043c","u0435","u0439","u043d","u043d","u0435","u0442">> >>],
      [label |-> "research_phase",
       keywords |-> << <<"r","e","s","e","a","r","c","h">>, <<"a","n","a","l","y","s","i","s">>,
                      <<"p","o","t","e","n","t","i","a","l">>,
                      <<"u0438","u0441","u0441","u043b","u0435","u0434","u043e","u0432","u0430","u043d","u0438","u0435">>,
                      <<"u0430","u043d","u0430","u043b","u0438","u0437">> >>],
      [label |-> "urgent_action",
       keywords |-> << <<"c","l","a","i","m">>, <<"m","i","n","t">>, <<"s","t","a","k","e">>,
                      <<"d","e","a","d","l","i","n","e">>,
                      <<"u0441","u0440","u043e","u0447","u043d","u043e">>,
                      <<"u043a","u043b","u0435","u0439","u043c">>,
                      <<"u043c","u0438","u043d","u0442">>,
                      <<"l","a","s","t"," ","c","h","a","n","c","e">> >>],
      [label |-> "upcoming_opportunity",
       keywords |-> << <<"w","h","i","t","e","l","i","s","t">>, <<"p","r","e","s","a","l","e">>,
                      <<"a","i","r","d","r","o","p">>,
                      <<"u0432","u0430","u0439","u0442","u043b","u0438","u0441","u0442">>,
                      <<"u043f","u0440","u0435","u0441","u0435","u0439","u043b">>,
                      <<"u0440","u0430","u0437","u0434","u0430","u0447","u0430">> >>],
      [label |-> "monitoring_needed",
       keywords |-> << <<"p","r","o","p","o","s","a","l">>, <<"u","p","d","a","t","e">>,
                      <<"c","h","a","n","g","e">>,
                      <<"u043e","u0431","u043d","u043e","u0432","u043b","u0435","u043d","u0438","u0435">>,
                      <<"a","n","n","o","u","n","c","e","m","e","n","t">> >>],
      [label |-> "tokenomics",
       keywords |-> << <<"t","o","k","e","n">>, <<"s","u","p","p","l","y">>,
                      <<"a","l","l","o","c","a","t","i","o","n">>, <<"v","e","s","t","i","n","g">>,
                      <<"u0442","u043e","u043a","u0435","u043d">>,
                      <<"u044d","u043c","u0438","u0441","u0441","u0438","u044f">> >>],
      [label |-> "fundraising",
       keywords |-> << <<"f","u","n","d","i","n","g">>, <<"i","n","v","e","s","t","m","e","n","t">>,
                      <<"s","e","e","d">>, <<"r","a","i","s","e">>,
                      <<"u0438","u043d","u0432","u0435","u0441","u0442","u0438","u0446","u0438","u0438">>,
                      <<"u0440","u0430","u0443","u043d","u0434">> >>],
      [label |-> "trading",
       keywords |-> << <<"e","x","c","h","a","n","g","e">>, <<"l","i","s","t","i","n","g">>,
                      <<"m","a","r","k","e","t">>, <<"u0431","u0438","u0440","u0436","u0430">>,
                      <<"u043b","u0438","u0441","u0442","u0438","u043d","u0433">>,
                      <<"m","a","r","k","e","t"," ","c","a","p">>, <<"p","r","i","c","e">>,
                      <<"u","p">>, <<"d","o","w","n">> >>],
      [label |-> "defi",
       keywords |-> << <<"y","i","e","l","d">>, <<"l","i","q","u","i","d","i","t","y">>,
                      <<"p","o","o","l">>, <<"f","a","r","m">>, <<"l","p">>,
                      <<"u0441","u0442","u0435","u0439","u043a","u0438","u043d","u0433">>,
                      <<"u043f","u0443","u043b">>, <<"u0444","u0430","u0440","u043c">>,
                      <<"y","i","e","l","d">> >>],
      [label |-> "nft",
       keywords |-> << <<"n","f","t">>, <<"c","o","l","l","e","c","t","i","o","n">>,
                      <<"u043d","u0444","u0442">>,
                      <<"u043a","u043e","u043b","u043b","u0435","u043a","u0446","u0438","u044f">>,
                      <<"m","i","n","t">> >>],
      [label |-> "tech",
       keywords |-> << <<"p","r","o","t","o","c","o","l">>, <<"c","h","a","i","n">>,
                      <<"l","a","y","e","r">>,
                      <<"u043f","u0440","u043e","u0442","u043e","u043a","u043e","u043b">>,
                      <<"u0447","u0435","u0439","u043d">>, <<"l","a","y","e","r">>, <<"z","k">>,
                      <<"r","o","l","l","u","p">>, <<"c","o","n","s","e","n","s","u","s">> >>],
      [label |-> "community",
       keywords |-> << <<"c","o","m","m","u","n","i","t","y">>, <<"h","o","l","d","e","r">>,
                      <<"a","m","b","a","s","s","a","d","o","r">>,
                      <<"u0441","u043e","u043e","u0431","u0449","u0435","u0441","u0442","u0432","u043e">>,
                      <<"u0430","u043c","u0431","u0430","u0441","u0441","u0430","u0434","u043e","u0440">> >>],
      [label |-> "gaming",
       keywords |-> << <<"g","a","m","e">>, <<"p","l","a","y">>, <<"q","u","e","s","t">>,
                      <<"u0438","u0433","u0440">>, <<"q","u","e","s","t">> >>],
      [label |-> "social",
       keywords |-> << <<"s","o","c","i","a","l">>, <<"p","r","o","f","i","l","e">>,
                      <<"a","c","c","o","u","n","t">>,
                      <<"u0441","u043e","u0446","u0438","u0430","u043b","u044c","u043d">>,
                      <<"u043f","u0440","u043e","u0444","u0438","u043b","u044c">> >>]
    >>

\* DataClassifier.priority_indicators, in dictionary order
priority_indicators ==
    <<
      [label |-> "high_impact",
       keywords |-> << <<"i","m","p","o","r","t","a","n","t">>, <<"c","r","i","t","i","c","a","l">>,
                      <<"m","a","j","o","r">>, <<"s","i","g","n","i","f","i","c","a","n","t">>,
                      <<"u0432","u0430","u0436","u043d","u043e">>,
                      <<"u043a","u0440","u0438","u0442","u0438","u0447","u043d","u043e">> >>],
      [label |-> "time_sensitive",
       keywords |-> << <<"t","o","d","a","y">>, <<"t","o","m","o","r","r","o","w">>,
                      <<"h","o","u","r","s">>, <<"d","e","a","d","l","i","n","e">>,
                      <<"u0441","u0435","u0433","u043e","u0434","u043d","u044f">>,
                      <<"u0437","u0430","u0432","u0442","u0440","u0430">>,
                      <<"u0447","u0430","u0441","u043e","u0432">> >>],
      [label |-> "alpha",
       keywords |-> << <<"a","l","p","h","a">>, <<"i","n","s","i","d","e","r">>,
                      <<"e","x","c","l","u","s","i","v","e">>,
                      <<"u0430","u043b","u044c","u0444","u0430">>,
                      <<"u0438","u043d","u0441","u0430","u0439","u0434">>, <<"e","a","r","l","y">> >>],
      [label |-> "risk",
       keywords |-> << <<"w","a","r","n","i","n","g">>, <<"a","l","e","r","t">>, <<"s","c","a","m">>,
                      <<"f","a","k","e">>,
                      <<"u043f","u0440","u0435","u0434","u0443","u043f","u0440","u0435","u0436","u0434","u0435","u043d","u0438","u0435">>,
                      <<"u0441","u043a","u0430","u043c">> >>],
      [label |-> "opportunity",
       keywords |-> << <<"p","r","o","f","i","t">>, <<"g","a","i","n">>, <<"e","a","r","n">>,
                      <<"r","e","w","a","r","d","s">>,
                      <<"u043f","u0440","u0438","u0431","u044b","u043b","u044c">>,
                      <<"u0437","u0430","u0440","u0430","u0431","u043e","u0442","u043e","u043a">>,
                      <<"f","r","e","e">> >>]
    >>

\* DataClassifier.discovery_patterns, in order:
\*   lit_sep_name:  lit [:\s]+ ([A-Za-z0-9_]+)
\*   name_lit:      ([A-Za-z0-9_]+) lit
\*   symbol_lit:    \$([A-Z]{2,10}) lit
\* (all matched with re.IGNORECASE)
discovery_patterns ==
    << [kind |-> "lit_sep_name", lit |-> <<"n","e","w"," ","p","r","o","j","e","c","t">>],
       [kind |-> "lit_sep_name", lit |-> <<"u","p","c","o","m","i","n","g"," ","p","r","o","j","e","c","t">>],
       [kind |-> "name_lit", lit |-> <<" ","i","s"," ","l","a","u","n","c","h","i","n","g">>],
       [kind |-> "name_lit", lit |-> <<" ","t","o","k","e","n"," ","l","a","u","n","c","h">>],
       [kind |-> "name_lit", lit |-> <<" ","a","i","r","d","r","o","p">>],
       [kind |-> "symbol_lit", lit |-> <<" ","l","a","u","n","c","h">>] >>

\* r'\$([A-Z]{2,10})\b', case sensitive
SymbolPattern == [kind |-> "symbol_boundary", lit |-> << >>]

\* r'0x[a-fA-F0-9]{40}', case sensitive
ContractPattern == [kind |-> "contract", lit |-> << >>]

NoMatch == [ok |-> FALSE, group |-> << >>, end |-> 0]

\* re: one attempt to match the pattern at index i; end is the index after the
\* match, group what findall returns for it
MatchAt(pat, t, i) ==
    CASE pat.kind = "lit_sep_name" ->
            LET s == i + Len(pat.lit)
                n == RunEnd(t, s, {":"} \cup Whitespace)
                e == RunEnd(t, n, WordChars)
            IN  IF /\ s - 1 <= Len(t)
                   /\ lower(SubSeq(t, i, s - 1)) = lower(pat.lit)
                   /\ n > s
                   /\ e > n
                THEN [ok |-> TRUE, group |-> SubSeq(t, n, e - 1), end |-> e]
                ELSE NoMatch
      [] pat.kind = "name_lit" ->
            LET e == RunEnd(t, i, WordChars)
                f == e + Len(pat.lit)
            IN  IF /\ e > i
                   /\ f - 1 <= Len(t)
                   /\ lower(SubSeq(t, e, f - 1)) = lower(pat.lit)
                THEN [ok |-> TRUE, group |-> SubSeq(t, i, e - 1), end |-> f]
                ELSE NoMatch
      [] pat.kind = "symbol_lit" ->
            LET e == RunEnd(t, i + 1, AsciiLetters)
                f == e + Len(pat.lit)
            IN  IF /\ t[i] = "$"
                   /\ e - (i + 1) >= 2
                   /\ e - (i + 1) <= 10
                   /\ f - 1 <= Len(t)
                   /\ lower(SubSeq(t, e, f - 1)) = lower(pat.lit)
                THEN [ok |-> TRUE, group |-> SubSeq(t, i + 1, e - 1), end |-> f]
                ELSE NoMatch
      [] pat.kind = "symbol_boundary" ->
            LET e == RunEnd(t, i + 1, AsciiUpper)
            IN  IF /\ t[i] = "$"
                   /\ e - (i + 1) >= 2
                   /\ e - (i + 1) <= 10
                   /\ (e > Len(t) \/ t[e] \notin WordChars)
                THEN [ok |-> TRUE, group |-> SubSeq(t, i + 1, e - 1), end |-> e]
                ELSE NoMatch
      [] pat.kind = "contract" ->
            IF /\ HasAt(t, i, <<"0","x">>)
               /\ RunEnd(t, i + 2, HexDigits) >= i + 42
            THEN [ok |-> TRUE, group |-> SubSeq(t, i, i + 41), end |-> i + 42]
            ELSE NoMatch

\* re.findall(pattern, t): leftmost matches, not overlapping
RECURSIVE FindAll(_, _, _)
FindAll(pat, t, i) ==
    LET starts == {j \in i..Len(t) : MatchAt(pat, t, j).ok}
    IN  IF starts = {} THEN << >>
        ELSE <<MatchAt(pat, t, First(starts)).group>>
                \o FindAll(pat, t, MatchAt(pat, t, First(starts)).end)

\* preprocess_text normalising whitespace before it removes the URLs
preprocess_text_collapse_first(text) ==
    IF ~IsStr(text) THEN << >>
    ELSE LET t1 == lower(text)
             t2 == [i \in 1..Len(t1) |-> IF t1[i] \in {"$", "#", "@"} THEN " " ELSE t1[i]]
         IN  RemoveUrls(strip(CollapseWhitespace(t2, 1)), 1)

\* DataClassifier.preprocess_text
preprocess_text(text) ==
    IF ~IsStr(text) THEN << >>
    ELSE LET t1 == lower(text)
             t2 == [i \in 1..Len(t1) |-> IF t1[i] \in {"$", "#", "@"} THEN " " ELSE t1[i]]
             t3 == RemoveUrls(t2, 1)
         IN  strip(CollapseWhitespace(t3, 1))

\* source_weights.get(source_type, 0.4)
DefaultWeight == 40

\* get_source_weight falling back to 4.0 instead of 0.4
get_source_weight_typo(source_type, channel) ==
    IF channel # NoChannel /\ channel \in DOMAIN tracked_channels
    THEN tracked_channels[channel].weight
    ELSE IF source_type \in DOMAIN source_weights
         THEN source_weights[source_type]
         ELSE 400

\* DataClassifier.get_source_weight
get_source_weight(source_type, channel) ==
    IF channel # NoChannel /\ channel \in DOMAIN tracked_channels
    THEN tracked_channels[channel].weight
    ELSE IF source_type \in DOMAIN source_weights
         THEN source_weights[source_type]
         ELSE DefaultWeight

\* the project priority multiplier of calculate_priority_score
EntryMultiplier(p) ==
    IF "priority" \in DOMAIN p /\ p.priority = "high_priority"
    THEN Rat(3, 2) ELSE Rat(6, 5)

RECURSIVE MaxEntryMultiplier(_)
MaxEntryMultiplier(ps) ==
    IF Len(ps) = 1 THEN EntryMultiplier(ps[1])
    ELSE LET m == MaxEntryMultiplier(Tail(ps))
             h == EntryMultiplier(ps[1])
         IN  IF RLess(h, m) THEN m ELSE h

ProjectMultiplier(ps) ==
    IF ps = << >> THEN One
    ELSE IF \E i \in 1..Len(ps) : "priority" \in DOMAIN ps[i]
         THEN MaxEntryMultiplier(ps)
         ELSE One

\* score *= a/b when label is in the list
TimesIf(score, label, list, a, b) ==
    IF label \in Range(list) THEN RMul(score, a, b) ELSE score

\* calculate_priority_score with the alpha factor left out and risk halving
calculate_priority_score_slip(a) ==
    LET s1 == IF a.projects # << >>
              THEN RMul(One, ProjectMultiplier(a.projects).n, ProjectMultiplier(a.projects).d)
              ELSE One
        s2 == TimesIf(s1, "high_impact", a.context, 13, 10)
        s3 == TimesIf(s2, "time_sensitive", a.context, 7, 5)
        s5 == TimesIf(s3, "risk", a.context, 1, 2)
        s6 == TimesIf(s5, "opportunity", a.context, 5, 4)
        s7 == TimesIf(s6, "urgent_action", a.categories, 3, 2)
        s8 == TimesIf(s7, "active_investment", a.categories, 13, 10)
        s9 == TimesIf(s8, "project_launch", a.categories, 5, 4)
        s10 == TimesIf(s9, "upcoming_opportunity", a.categories, 27, 20)
    IN  RMul(s10, a.source_weight, 100)

\* DataClassifier.calculate_priority_score
calculate_priority_score(a) ==
    LET s0 == One
        s1 == IF a.projects # << >>
              THEN RMul(s0, ProjectMultiplier(a.projects).n, ProjectMultiplier(a.projects).d)
              ELSE s0
        s2 == TimesIf(s1, "high_impact", a.context, 13, 10)
        s3 == TimesIf(s2, "time_sensitive", a.context, 7, 5)
        s4 == TimesIf(s3, "alpha", a.context, 6, 5)
        s5 == TimesIf(s4, "risk", a.context, 3, 2)
        s6 == TimesIf(s5, "opportunity", a.context, 5, 4)
        s7 == TimesIf(s6, "urgent_action", a.categories, 3, 2)
        s8 == TimesIf(s7, "active_investment", a.categories, 13, 10)
        s9 == TimesIf(s8, "project_launch", a.categories, 5, 4)
        s10 == TimesIf(s9, "upcoming_opportunity", a.categories, 27, 20)
    IN  RMul(s10, a.source_weight, 100)

\* entries appended for the keywords of tracked_keywords found in t
RECURSIVE KeywordEntries(_, _)
KeywordEntries(kws, t) ==
    IF kws = << >> THEN << >>
    ELSE (IF Contains(t, Head(kws).keyword)
          THEN [i \in 1..Len(Head(kws).projects) |->
                  [name |-> Head(kws).projects[i].project,
                   priority |-> Head(kws).projects[i].priority,
                   confidence |-> IF Head(kws).projects[i].priority = "high_priority"
                                  THEN 80 ELSE 60,
                   source |-> "keyword"]]
          ELSE << >>)
         \o KeywordEntries(Tail(kws), t)

\* entries appended for the symbols found, against the current project list
SymbolEntries(symbols, all) ==
    Flatten([s \in 1..Len(symbols) |->
        Flatten([j \in 1..Len(all) |->
            IF lower(symbols[s]) = lower(all[j].symbol)
            THEN << [name |-> all[j].name, priority |-> all[j].priority,
                     confidence |-> 70, source |-> "symbol"] >>
            ELSE << >>])])

\* entries appended for the contract addresses found
ContractEntries(contracts, all) ==
    Flatten([c \in 1..Len(contracts) |->
        Flatten([j \in 1..Len(all) |->
            IF \E k \in 1..Len(all[j].contracts) :
                   lower(all[j].contracts[k]) = lower(contracts[c])
            THEN << [name |-> all[j].name, priority |-> all[j].priority,
                     confidence |-> 90, source |-> "contract"] >>
            ELSE << >>])])

\* Deduplicate comparing the names as written, whatever fold says
RECURSIVE Deduplicate_exact(_, _, _)
Deduplicate_exact(ps, acc, fold) ==
    IF ps = << >> THEN acc
    ELSE LET p == Head(ps)
             seen == \E i \in 1..Len(acc) : acc[i].name = p.name
         IN  Deduplicate_exact(Tail(ps), IF seen THEN acc ELSE Append(acc, p), fold)

\* Deduplicate keeping the last entry of every name in place of the first
RECURSIVE Deduplicate_keep_last(_, _, _)
Deduplicate_keep_last(ps, acc, fold) ==
    IF ps = << >> THEN acc
    ELSE LET p == Head(ps)
             same(i) == IF fold THEN lower(acc[i].name) = lower(p.name)
                        ELSE acc[i].name = p.name
         IN  Deduplicate_keep_last(
                 Tail(ps),
                 IF \E i \in 1..Len(acc) : same(i)
                 THEN [i \in 1..Len(acc) |-> IF same(i) THEN p ELSE acc[i]]
                 ELSE Append(acc, p),
                 fold)

\* keep the first entry of every name (names compared lower-cased when fold)
RECURSIVE Deduplicate(_, _, _)
Deduplicate(ps, acc, fold) ==
    IF ps = << >> THEN acc
    ELSE LET p == Head(ps)
             seen == \E i \in 1..Len(acc) :
                        IF fold THEN lower(acc[i].name) = lower(p.name)
                        ELSE acc[i].name = p.name
         IN  Deduplicate(Tail(ps), IF seen THEN acc ELSE Append(acc, p), fold)

\* DataClassifier.identify_projects
identify_projects(text, channel) ==
    LET t == preprocess_text(text)
        byChannel ==
            IF channel # NoChannel /\ channel \in DOMAIN tracked_channels
            THEN << [name |-> tracked_channels[channel].project,
                     confidence |-> tracked_channels[channel].weight,
                     source |-> "channel"] >>
            ELSE << >>
        byKeyword == KeywordEntries(tracked_keywords, t)
        bySymbol == SymbolEntries(FindAll(SymbolPattern, t, 1), get_all_projects(projects))
        byContract == ContractEntries(FindAll(ContractPattern, t, 1),
                                      get_all_projects(projects))
    IN  Deduplicate(byChannel \o byKeyword \o bySymbol \o byContract, << >>, FALSE)

\* MatchLabels looking at the first keyword of every label only
MatchLabels_first_keyword(dict, t) ==
    Flatten([i \in 1..Len(dict) |->
        IF Contains(t, dict[i].keywords[1]) THEN <<dict[i].label>> ELSE << >>])

\* the labels of the dictionary with a keyword in t, in dictionary order
RECURSIVE MatchLabels(_, _)
MatchLabels(dict, t) ==
    IF dict = << >> THEN << >>
    ELSE (IF \E k \in 1..Len(Head(dict).keywords) : Contains(t, Head(dict).keywords[k])
          THEN <<Head(dict).label>> ELSE << >>)
         \o MatchLabels(Tail(dict), t)

\* the confidence of a candidate with neither boost capped at 0.2
DiscoveryConfidence_uncapped(t, match) ==
    LET mention_count == CountFrom(lower(t), lower(match), 1)
        nearby_keywords == << <<"l","a","u","n","c","h">>, <<"t","o","k","e","n">>, <<"p","r","o","j","e","c","t">>,
                              <<"a","i","r","d","r","o","p">>, <<"w","h","i","t","e","l","i","s","t">> >>
        nearby_count == Cardinality({k \in 1..Len(nearby_keywords) :
                                        Contains(lower(t), nearby_keywords[k])})
    IN  60 + (IF mention_count > 1 THEN mention_count * 5 ELSE 0) + nearby_count * 4

\* the confidence of a discovered name, in hundredths
DiscoveryConfidence(t, match) ==
    LET mention_count == CountFrom(lower(t), lower(match), 1)
        nearby_keywords == << <<"l","a","u","n","c","h">>, <<"t","o","k","e","n">>, <<"p","r","o","j","e","c","t">>,
                              <<"a","i","r","d","r","o","p">>, <<"w","h","i","t","e","l","i","s","t">> >>
        nearby_count == Cardinality({k \in 1..Len(nearby_keywords) :
                                        Contains(lower(t), nearby_keywords[k])})
    IN  60 + (IF mention_count > 1 THEN Min(20, mention_count * 5) ELSE 0)
           + Min(20, nearby_count * 4)

\* DataClassifier.detect_new_projects
detect_new_projects(t) ==
    LET all == get_all_projects(projects)
        found(pat) ==
            LET ms == FindAll(pat, t, 1)
            IN  Flatten([k \in 1..Len(ms) |->
                    IF \E j \in 1..Len(all) : lower(all[j].name) = lower(ms[k])
                    THEN << >>
                    ELSE << [name |-> ms[k], confidence |-> DiscoveryConfidence(t, ms[k]),
                             source |-> "discovery"] >>])
        new_projects == Flatten([p \in 1..Len(discovery_patterns) |->
                                    found(discovery_patterns[p])])
    IN  Deduplicate(new_projects, << >>, TRUE)

\* the categories inferred when no dictionary category matched
InferredCategories(t) ==
    (IF \E w \in { <<"u","p","d","a","t","e">>, <<"n","e","w">>, <<"r","e","l","e","a","s","e">>, <<"v","e","r","s","i","o","n">> } : Contains(t, w)
     THEN <<"monitoring_needed">> ELSE << >>)
    \o
    (IF \E i \in 1..Len(t) : t[i] \in Digits
     THEN IF Contains(t, <<"x">>) \/ Contains(t, <<"%">>) \/ Contains(t, <<"a","p","y">>)
          THEN <<"defi">>
          ELSE IF Contains(t, <<"h","o","l","d","e","r">>) \/ Contains(t, <<"s","u","p","p","l","y">>)
               THEN <<"tokenomics">>
               ELSE << >>
     ELSE << >>)

\* categorize_text building its result in the lists of the result before it
categorize_text_accumulating(text, channel) ==
    LET t == preprocess_text(text)
        matched == MatchLabels(categories, t)
    IN  [categories |-> analysis.categories \o
                            (IF matched = << >> THEN InferredCategories(t) ELSE matched),
         context |-> analysis.context \o MatchLabels(priority_indicators, t),
         projects |-> identify_projects(t, channel),
         source_weight |-> get_source_weight("general", channel),
         new_projects |-> detect_new_projects(t)]

\* DataClassifier.categorize_text
categorize_text(text, channel) ==
    LET t == preprocess_text(text)
        matched == MatchLabels(categories, t)
    IN  [categories |-> IF matched = << >> THEN InferredCategories(t) ELSE matched,
         context |-> MatchLabels(priority_indicators, t),
         projects |-> identify_projects(t, channel),
         source_weight |-> get_source_weight("general", channel),
         new_projects |-> detect_new_projects(t)]

(***************************************************************************)
(* opportunity_analyzer.py: OpportunityAnalyzer.  Floats are fixed point   *)
(* in units of 1/SCALE; opportunity_score is in units of 1/SCALE of a      *)
(* point, so 70.0 is 70 * SCALE.                                           *)
(***************************************************************************)
SCALE == 10000

\* e and 1/e in fixed point
E_FIX == 27183
EINV_FIX == 3679

\* terms of the exponential series summed
SeriesTerms == 9

\* b^q in fixed point
RECURSIVE PowFix(_, _)
PowFix(b, q) == IF q = 0 THEN SCALE ELSE (PowFix(b, q - 1) * b) \div SCALE

\* sum over k >= n of (r/den)^k / k!, given the term for k = n
RECURSIVE SeriesFrom(_, _, _, _)
SeriesFrom(term, r, den, n) ==
    IF n >= SeriesTerms \/ term = 0 THEN term
    ELSE term + SeriesFrom((term * r) \div (den * (n + 1)), r, den, n + 1)

\* math.exp(num/den) in fixed point, den > 0
ExpFix(num, den) ==
    IF num >= 0
    THEN (PowFix(E_FIX, num \div den) * SeriesFrom(SCALE, num % den, den, 0)) \div SCALE
    ELSE (PowFix(EINV_FIX, (-num) \div den)
            * ((SCALE * SCALE) \div SeriesFrom(SCALE, (-num) % den, den, 0))) \div SCALE

\* 1.0 / (1.0 + math.exp(num/den))
Logistic(num, den) == (SCALE * SCALE) \div (SCALE + ExpFix(num, den))

Max(a, b) == IF a > b THEN a ELSE b
Clamp01(x) == Max(0, Min(SCALE, x))

\* OpportunityAnalyzer.weights, in hundredths
weights ==
    [activity_level |-> 25, community_growth |-> 15, sentiment |-> 15,
     urgency |-> 20, roi_potential |-> 25]

\* OpportunityAnalyzer.opportunity_categories, in dictionary order
opportunity_categories ==
    <<
      [label |-> "airdrop", effort_level |-> "low", time_sensitivity |-> "high",
       roi_potential |-> "medium",
       keywords |-> << <<"a","i","r","d","r","o","p">>, <<"f","r","e","e">>, <<"c","l","a","i","m">>,
                      <<"d","i","s","t","r","i","b","u","t","i","o","n">>,
                      <<"e","l","i","g","i","b","l","e">> >>],
      [label |-> "testnet", effort_level |-> "medium", time_sensitivity |-> "medium",
       roi_potential |-> "high",
       keywords |-> << <<"t","e","s","t","n","e","t">>, <<"t","e","s","t">>,
                      <<"v","a","l","i","d","a","t","o","r">>, <<"n","o","d","e">>,
                      <<"i","n","c","e","n","t","i","v","i","z","e","d">> >>],
      [label |-> "whitelist", effort_level |-> "low", time_sensitivity |-> "high",
       roi_potential |-> "high",
       keywords |-> << <<"w","h","i","t","e","l","i","s","t">>,
                      <<"a","l","l","o","w","l","i","s","t">>, <<"w","l">>,
                      <<"p","r","e","s","a","l","e">>, <<"e","a","r","l","y">> >>],
      [label |-> "staking", effort_level |-> "low", time_sensitivity |-> "low",
       roi_potential |-> "medium",
       keywords |-> << <<"s","t","a","k","e">>, <<"s","t","a","k","i","n","g">>,
                      <<"l","o","c","k","e","d">>, <<"y","i","e","l","d">>,
                      <<"r","e","w","a","r","d">>, <<"a","p","r">>, <<"a","p","y">> >>],
      [label |-> "farming", effort_level |-> "medium", time_sensitivity |-> "medium",
       roi_potential |-> "medium",
       keywords |-> << <<"f","a","r","m">>, <<"f","a","r","m","i","n","g">>,
                      <<"l","i","q","u","i","d","i","t","y">>, <<"p","o","o","l">>,
                      <<"y","i","e","l","d">> >>],
      [label |-> "token_launch", effort_level |-> "high", time_sensitivity |-> "high",
       roi_potential |-> "high",
       keywords |-> << <<"l","a","u","n","c","h">>, <<"l","i","s","t","i","n","g">>, <<"i","d","o">>,
                      <<"i","c","o">>, <<"p","u","b","l","i","c"," ","s","a","l","e">> >>],
      [label |-> "community_tasks", effort_level |-> "medium", time_sensitivity |-> "medium",
       roi_potential |-> "low",
       keywords |-> << <<"t","a","s","k">>, <<"q","u","e","s","t">>, <<"m","i","s","s","i","o","n">>,
                      <<"b","o","u","n","t","y">>, <<"a","m","b","a","s","s","a","d","o","r">> >>]
    >>

\* OpportunityAnalyzer.roi_levels
roi_levels == [low |-> 1 * SCALE, medium |-> 2 * SCALE, high |-> 3 * SCALE]

\* category_to_opp in detect_opportunity_type
category_to_opp ==
    << [category |-> "upcoming_opportunity", opp_types |-> {"whitelist", "airdrop", "token_launch"}],
       [category |-> "active_investment", opp_types |-> {"staking", "farming"}],
       [category |-> "testnet_participation", opp_types |-> {"testnet"}],
       [category |-> "community", opp_types |-> {"community_tasks"}] >>

(***************************************************************************)
(* The database.  analyzed_data joined with raw_data: the rows the         *)
(* aggregator reads, as a multiset over RowKinds (kind -> number of rows). *)
(* age is the age of analysis_timestamp in whole days.                     *)
(***************************************************************************)
RowKinds ==
    << [project_id |-> 1, age |-> 0,
        context |-> <<"time_sensitive", "opportunity">>,
        categories |-> <<"urgent_action", "upcoming_opportunity">>,
        priority_score |-> 53156,
        content |-> <<"Z","e","t","a"," ","r","e","w","a","r","d","s",":"," ","$","A","B",
                     "C"," ","a","i","r","d","r","o","p"," ","c","l","a","i","m"," ","n",
                     "o","w",","," ","d","e","a","d","l","i","n","e"," ","t","o","d","a",
                     "y","!">>],
       [project_id |-> 1, age |-> 7,
        context |-> <<"risk">>,
        categories |-> <<"testnet_participation">>,
        priority_score |-> 13000,
        content |-> <<"r","i","s","k"," ","a","l","e","r","t",":"," ","t","e","s","t","n",
                     "e","t"," ","n","o","d","e">>],
       [project_id |-> 1, age |-> 8,
        context |-> << >>,
        categories |-> <<"defi">>,
        priority_score |-> 4000,
        content |-> <<"y","i","e","l","d"," ","p","o","o","l"," ","5","%">>],
       [project_id |-> 2, age |-> 0,
        context |-> <<"risk">>,
        categories |-> <<"urgent_action">>,
        priority_score |-> 22500,
        content |-> <<"O","r","b","i","t"," ","w","a","r","n","i","n","g",":"," ","c","l",
                     "a","i","m">>] >>

Kinds == 1..Len(RowKinds)

\* datetime('now', '-N days') <= analysis_timestamp: an ISO timestamp compares
\* above the SQLite threshold of the same calendar day ('T' > ' ')
Since(row, days) == row.age <= days

Before(row, days) == row.age > days

RECURSIVE SumTo(_, _)
SumTo(f, n) == IF n = 0 THEN 0 ELSE f[n] + SumTo(f, n - 1)

\* the rows of a project as kind -> number of rows: WHERE ad.project_id = ?
RowsOf(db, pid) == [k \in Kinds |-> IF RowKinds[k].project_id = pid THEN db[k] ELSE 0]

Size(rows) == SumTo(rows, Len(RowKinds))

\* the queries one scoring call executes; DatabaseManager.execute_query and
\* select return [] for one that fails
QueryExecutions ==
    {"get_project", "activity", "growth_recent", "growth_previous", "sentiment",
     "urgency", "opportunity_type", "roi_get_project", "roi_activity", "roi_sentiment"}

\* database/db_utils.py get_project: the row, or None
get_project(prj, pid, failed) == ~failed /\ pid \in DOMAIN prj

\* calculate_activity_score keeping the highest activity of the calls so far
calculate_activity_score_accumulating(db, pid, failed) ==
    LET mention_count ==
            Size([k \in Kinds |-> IF Since(RowKinds[k], 7) THEN RowsOf(db, pid)[k] ELSE 0])
        fresh == IF failed THEN 0 ELSE Logistic(-2 * (mention_count - 5), 5)
    IN  IF "component_scores" \in DOMAIN snapshot
        THEN Max(fresh, snapshot.component_scores.activity)
        ELSE fresh

\* OpportunityAnalyzer.calculate_activity_score (days = 7)
calculate_activity_score(db, pid, failed) ==
    IF failed THEN 0
    ELSE LET mention_count ==
                 Size([k \in Kinds |-> IF Since(RowKinds[k], 7) THEN RowsOf(db, pid)[k] ELSE 0])
         IN  Logistic(-2 * (mention_count - 5), 5)

\* calculate_community_growth with the sign of the exponent flipped
calculate_community_growth_flipped(db, pid, failed_recent, failed_previous) ==
    IF failed_recent \/ failed_previous THEN 0
    ELSE LET recent_mentions ==
                 Size([k \in Kinds |-> IF Since(RowKinds[k], 7) THEN RowsOf(db, pid)[k] ELSE 0])
             previous_mentions ==
                 Size([k \in Kinds |->
                         IF Since(RowKinds[k], 14) /\ Before(RowKinds[k], 7)
                         THEN RowsOf(db, pid)[k] ELSE 0])
         IN  IF previous_mentions = 0
             THEN Logistic(3 * (recent_mentions - 1), 2)
             ELSE Logistic(3 * (recent_mentions - previous_mentions), 2 * previous_mentions)

\* OpportunityAnalyzer.calculate_community_growth
calculate_community_growth(db, pid, failed_recent, failed_previous) ==
    IF failed_recent \/ failed_previous THEN 0
    ELSE LET recent_mentions ==
                 Size([k \in Kinds |-> IF Since(RowKinds[k], 7) THEN RowsOf(db, pid)[k] ELSE 0])
             previous_mentions ==
                 Size([k \in Kinds |->
                         IF Since(RowKinds[k], 14) /\ Before(RowKinds[k], 7)
                         THEN RowsOf(db, pid)[k] ELSE 0])
         IN  IF previous_mentions = 0
             THEN Logistic(-3 * (recent_mentions - 1), 2)
             ELSE Logistic(-3 * (recent_mentions - previous_mentions), 2 * previous_mentions)

\* OpportunityAnalyzer.calculate_sentiment_score
calculate_sentiment_score(db, pid, failed) ==
    LET results == [k \in Kinds |-> IF Since(RowKinds[k], 14) THEN RowsOf(db, pid)[k] ELSE 0]
        total_count == Size(results)
        positive_count ==
            Size([k \in Kinds |->
                    IF Range(RowKinds[k].context) \cap {"opportunity", "alpha"} # {}
                    THEN results[k] ELSE 0])
        negative_count ==
            Size([k \in Kinds |->
                    IF Range(RowKinds[k].context) \cap {"risk"} # {} THEN results[k] ELSE 0])
    IN  IF failed \/ total_count = 0 THEN SCALE \div 2
        ELSE Clamp01((SCALE \div 2) + (positive_count * SCALE) \div (2 * total_count)
                                    - (negative_count * SCALE) \div (2 * total_count))

\* the rows the urgency query can select from: recent, priority_score >= 1.3
UrgentRows(db, pid) ==
    [k \in Kinds |->
        IF Since(RowKinds[k], 7) /\ RowKinds[k].priority_score >= (13 * SCALE) \div 10
        THEN RowsOf(db, pid)[k] ELSE 0]

\* the ways of taking between lo[k] and hi[k] rows of each of the first n kinds
RECURSIVE Selections(_, _, _)
Selections(lo, hi, n) ==
    IF n = 0 THEN {<< >>}
    ELSE {Append(s, c) : s \in Selections(lo, hi, n - 1), c \in lo[n]..hi[n]}

\* ORDER BY ad.priority_score DESC LIMIT 10: every way of taking the 10 rows of
\* highest priority (rows of equal priority come in no fixed order)
TopTen(rows) ==
    LET above == [k \in Kinds |->
                    Size([j \in Kinds |->
                            IF RowKinds[j].priority_score > RowKinds[k].priority_score
                            THEN rows[j] ELSE 0])]
        level == [k \in Kinds |->
                    Size([j \in Kinds |->
                            IF j # k /\ RowKinds[j].priority_score = RowKinds[k].priority_score
                            THEN rows[j] ELSE 0])]
        most == [k \in Kinds |-> Max(0, Min(rows[k], 10 - above[k]))]
        least == [k \in Kinds |-> Max(0, Min(rows[k], 10 - above[k] - level[k]))]
    IN  { t \in Selections(least, most, Len(RowKinds)) : Size(t) = Min(10, Size(rows)) }

\* the highest priority_score among the rows of the first n kinds, from 0.0
RECURSIVE MaxPriorityTo(_, _)
MaxPriorityTo(results, n) ==
    IF n = 0 THEN 0
    ELSE Max(IF results[n] > 0 THEN RowKinds[n].priority_score ELSE 0,
             MaxPriorityTo(results, n - 1))

\* calculate_urgency_score without the cap on the normalized priority
calculate_urgency_score_uncapped(results, failed) ==
    LET total_count == Size(results)
        max_priority_score == MaxPriorityTo(results, Len(RowKinds))
        time_sensitive_count ==
            Size([k \in Kinds |->
                    IF \/ "time_sensitive" \in Range(RowKinds[k].context)
                       \/ "urgent_action" \in Range(RowKinds[k].categories)
                       \/ "upcoming_opportunity" \in Range(RowKinds[k].categories)
                    THEN results[k] ELSE 0])
        time_sensitive_ratio == (time_sensitive_count * SCALE) \div total_count
        normalized_priority ==
            IF max_priority_score > SCALE THEN max_priority_score - SCALE ELSE 0
    IN  IF failed \/ total_count = 0 THEN 0
        ELSE (time_sensitive_ratio * 6) \div 10 + (normalized_priority * 4) \div 10

\* OpportunityAnalyzer.calculate_urgency_score, on the rows its query returned
calculate_urgency_score(results, failed) ==
    LET total_count == Size(results)
        max_priority_score == MaxPriorityTo(results, Len(RowKinds))
        time_sensitive_count ==
            Size([k \in Kinds |->
                    IF \/ "time_sensitive" \in Range(RowKinds[k].context)
                       \/ "urgent_action" \in Range(RowKinds[k].categories)
                       \/ "upcoming_opportunity" \in Range(RowKinds[k].categories)
                    THEN results[k] ELSE 0])
        time_sensitive_ratio == (time_sensitive_count * SCALE) \div total_count
        normalized_priority ==
            Min(SCALE, IF max_priority_score > SCALE THEN max_priority_score - SCALE ELSE 0)
    IN  IF failed \/ total_count = 0 THEN 0
        ELSE (time_sensitive_ratio * 6) \div 10 + (normalized_priority * 4) \div 10

\* the votes one row gives an opportunity type, in halves: 2 for a keyword in
\* the content, 1 for every category mapped to the type
Votes(row, opp) ==
    IF row.content = << >> THEN 0
    ELSE (IF \E i \in 1..Len(opp.keywords) : Contains(lower(row.content), opp.keywords[i])
          THEN 2 ELSE 0)
         + Cardinality({c \in 1..Len(category_to_opp) :
                          /\ category_to_opp[c].category \in Range(row.categories)
                          /\ opp.label \in category_to_opp[c].opp_types})

KindVotes ==
    [k \in Kinds |-> [o \in 1..Len(opportunity_categories) |->
        Votes(RowKinds[k], opportunity_categories[o])]]

\* the first type with the most votes, from index o on
RECURSIVE Winner(_, _, _, _)
Winner(counts, o, best, max_count) ==
    IF o > Len(opportunity_categories) THEN best
    ELSE IF counts[o] > max_count
         THEN Winner(counts, o + 1, opportunity_categories[o].label, counts[o])
         ELSE Winner(counts, o + 1, best, max_count)

\* OpportunityAnalyzer.detect_opportunity_type: (type, confidence)
detect_opportunity_type(db, pid, failed) ==
    LET results == [k \in Kinds |-> IF Since(RowKinds[k], 7) THEN RowsOf(db, pid)[k] ELSE 0]
        total_items == Size(results)
        opportunity_counts ==
            [o \in 1..Len(opportunity_categories) |->
                Size([k \in Kinds |-> results[k] * KindVotes[k][o]])]
        primary == Winner(opportunity_counts, 1, "unknown", 0)
        max_count == IF primary = "unknown" THEN 0
                     ELSE opportunity_counts[CHOOSE o \in 1..Len(opportunity_categories) :
                              opportunity_categories[o].label = primary]
    IN  IF failed \/ total_items = 0 THEN [type |-> "unknown", confidence |-> 0]
        ELSE [type |-> primary,
              confidence |-> Min(SCALE, (max_count * SCALE) \div (2 * total_items))]

\* OpportunityAnalyzer.calculate_roi_potential
calculate_roi_potential(db, prj, pid, opportunity_type, failed) ==
    IF ~get_project(prj, pid, "roi_get_project" \in failed) THEN 0
    ELSE LET base_roi ==
                 IF \E o \in 1..Len(opportunity_categories) :
                        opportunity_categories[o].label = opportunity_type
                 THEN roi_levels[opportunity_categories[
                          CHOOSE o \in 1..Len(opportunity_categories) :
                              opportunity_categories[o].label = opportunity_type].roi_potential]
                 ELSE 1 * SCALE
             activity_score == calculate_activity_score(db, pid, "roi_activity" \in failed)
             sentiment_score == calculate_sentiment_score(db, pid, "roi_sentiment" \in failed)
             adjusted_roi ==
                 (base_roi * (SCALE + (activity_score - SCALE \div 2) \div 2
                                    + (sentiment_score - SCALE \div 2) \div 2)) \div SCALE
         IN  Clamp01(adjusted_roi \div 3)

\* the level the opportunity type has for the field, 'medium' for an unknown type
LevelOf(opportunity_type, field) ==
    IF \E o \in 1..Len(opportunity_categories) :
           opportunity_categories[o].label = opportunity_type
    THEN opportunity_categories[CHOOSE o \in 1..Len(opportunity_categories) :
             opportunity_categories[o].label = opportunity_type][field]
    ELSE "medium"

\* a threshold that leaves the score of exactly 70 out
WorthParticipating_strict(opportunity_score) == opportunity_score > 70 * SCALE

\* 'worth_participating': opportunity_score >= 70
WorthParticipating(opportunity_score) == opportunity_score >= 70 * SCALE

\* OpportunityAnalyzer.calculate_opportunity_score; urgent is what the urgency
\* query returned
calculate_opportunity_score(db, prj, pid, failed, urgent) ==
    IF ~get_project(prj, pid, "get_project" \in failed)
    THEN [project_id |-> pid, opportunity_score |-> 0, error |-> "Project not found"]
    ELSE LET activity_score == calculate_activity_score(db, pid, "activity" \in failed)
             community_growth ==
                 calculate_community_growth(db, pid, "growth_recent" \in failed,
                                            "growth_previous" \in failed)
             sentiment_score == calculate_sentiment_score(db, pid, "sentiment" \in failed)
             urgency_score == calculate_urgency_score(urgent, "urgency" \in failed)
             opp == detect_opportunity_type(db, pid, "opportunity_type" \in failed)
             roi_potential == calculate_roi_potential(db, prj, pid, opp.type, failed)
             opportunity_score ==
                 activity_score * weights["activity_level"]
                 + community_growth * weights["community_growth"]
                 + sentiment_score * weights["sentiment"]
                 + urgency_score * weights["urgency"]
                 + roi_potential * weights["roi_potential"]
         IN  [project_id |-> pid,
              project_name |-> prj[pid].name,
              opportunity_score |-> opportunity_score,
              opportunity_type |-> opp.type,
              opportunity_confidence |-> opp.confidence,
              component_scores |->
                  [activity |-> activity_score,
                   community_growth |-> community_growth,
                   sentiment |-> sentiment_score,
                   urgency |-> urgency_score,
                   roi_potential |-> roi_potential],
              effort_level |-> LevelOf(opp.type, "effort_level"),
              time_sensitivity |-> LevelOf(opp.type, "time_sensitivity"),
              worth_participating |-> WorthParticipating(opportunity_score)]

\* most rows stored
MaxRows == 15

NoSnapshot == [project_id |-> 0]

InitialDbProjects ==
    [id \in {1, 2} |-> [name |-> IF id = 1 THEN Zeta ELSE Orbit, is_active |-> 1]]


(***************************************************************************)
(* Specification SpecScore: calculate_priority_score applied to every      *)
(* classification shape the classifier can hand it.                        *)
(***************************************************************************)
\* longest matched-project list drawn
MaxProjects == 2

ContextLabels == <<"high_impact", "time_sensitive", "alpha", "risk", "opportunity", "discovery">>
CategoryLabels == <<"urgent_action", "active_investment", "project_launch",
                    "upcoming_opportunity", "defi">>

\* the entries identify_projects appends: a channel match carries no priority
ProjectEntries ==
    { [name |-> Zeta, confidence |-> 100, source |-> "channel"],
      [name |-> Orbit, confidence |-> 100, source |-> "channel"],
      [name |-> Zeta, priority |-> "high_priority", confidence |-> 80, source |-> "keyword"],
      [name |-> Orbit, priority |-> "medium_priority", confidence |-> 60, source |-> "keyword"] }

\* identify_projects returns one entry per name
ProjectLists ==
    { ps \in UNION { [1..k -> ProjectEntries] : k \in 0..MaxProjects } :
        \A i, j \in 1..Len(ps) : ps[i].name = ps[j].name => i = j }

\* the labels of s that are in the order of labels, or in the reverse order
RECURSIVE Listed(_, _)
Listed(labels, s) ==
    IF labels = << >> THEN << >>
    ELSE IF Head(labels) \in s THEN <<Head(labels)>> \o Listed(Tail(labels), s)
         ELSE Listed(Tail(labels), s)

Reverse(s) == [i \in 1..Len(s) |-> s[Len(s) + 1 - i]]

\* (source_type, channel) arguments of get_source_weight: every known type, an
\* unknown type, every tracked channel and an untracked one
WeightCalls ==
    { <<"general", NoChannel>>, <<"official", NoChannel>>, <<"partner", NoChannel>>,
      <<"community", NoChannel>>, <<"telegram", NoChannel>>,
      <<"general", "zeta_official">>, <<"general", "zeta_partner">>,
      <<"community", "orbit_news">>, <<"official", "crypto_chat">> }

(***************************************************************************)
(* AutomationEngine: construction                                          *)
(***************************************************************************)
\* the first day and the number of midnights that pass
FirstDay == 0
MaxDays == 1

\* the user configuration __init__ merges over the defaults: small daily
\* limits and one blacklisted project
UserConfig ==
    [ execution_limits |-> [max_concurrent_tasks |-> 5,
                            max_daily_social_actions |-> 2,
                            max_daily_transactions |-> 1],
      blacklisted_projects |-> <<"Rugpull">>,
      wallets |-> {"ethereum", "solana"} ]

\* AutomationEngine.__init__: an empty queue, no workers, counters at zero,
\* the reset date set to the day of construction, an empty history
InitEngine ==
    /\ today = FirstDay
    /\ config = UserConfig
    /\ running = FALSE
    /\ workers = << >>
    /\ task_queue = << >>
    /\ daily_social_actions = 0
    /\ daily_transactions = 0
    /\ last_reset_date = FirstDay
    /\ task_history = << >>
    /\ tasks = << >>
    /\ timers = {}

InitConfig ==
    /\ projects = InitialProjects
    /\ tracked_channels = get_all_channels(InitialProjects)
    /\ tracked_keywords = get_all_keywords(InitialProjects)

\* an empty database
InitDb ==
    /\ analyzed_data = [k \in Kinds |-> 0]
    /\ db_projects = InitialDbProjects
    /\ snapshot = NoSnapshot
    /\ raw_data = << >>
    /\ alerts = << >>

\* the weights get_source_weight resolves for those arguments
ResolvedWeights == { get_source_weight(wc[1], wc[2]) : wc \in WeightCalls }

\* the classification handed to calculate_priority_score: any listed labels,
\* with or without unlisted ones, in either order, any matched-project list, a
\* weight resolved by get_source_weight
InitScore ==
    /\ InitConfig
    /\ InitEngine
    /\ InitDb
    /\ \E ctx \in SUBSET (Range(ContextLabels) \ {"discovery"}),
          cat \in SUBSET (Range(CategoryLabels) \ {"defi"}),
          ps \in ProjectLists, w \in ResolvedWeights, rev \in BOOLEAN, other \in BOOLEAN :
          LET cs == Listed(ContextLabels, ctx \cup (IF other THEN {"discovery"} ELSE {}))
              gs == Listed(CategoryLabels, cat \cup (IF other THEN {"defi"} ELSE {}))
          IN  analysis =
                [categories |-> IF rev THEN Reverse(gs) ELSE gs,
                 context |-> IF rev THEN Reverse(cs) ELSE cs,
                 projects |-> ps,
                 source_weight |-> w,
                 new_projects |-> << >>]
    /\ call = [op |-> "calculate_priority_score", done |-> FALSE]
    /\ priority_score = NoScore

\* one call of calculate_priority_score
ScorePriority ==
    /\ call.op = "calculate_priority_score"
    /\ ~call.done
    /\ priority_score' = calculate_priority_score(analysis)
    /\ call' = [call EXCEPT !.done = TRUE]
    /\ UNCHANGED <<cfgVars, engVars, analysis, dbVars>>

NextScore == ScorePriority

SpecScore == InitScore /\ [][NextScore]_vars

(***************************************************************************)
(* Specification SpecClassify: one classification call per behaviour, on a *)
(* text assembled from the phrases of Vocabulary and a channel.            *)
(***************************************************************************)
\* most phrases joined into one text
MaxPhrases == 2

Vocabulary ==
    << <<"$","A","B","C"," ","a","i","r","d","r","o","p"," ","c","l","a","i","m"," ","n","o","w",","," ","d","e","a","d","l","i","n","e"," ","t","o","d","a","y","!">>,
       <<"n","e","w"," ","p","r","o","j","e","c","t",":"," ","F","o","o">>,
       <<"u","p","c","o","m","i","n","g"," ","p","r","o","j","e","c","t",":"," ","F","o","o">>,
       <<"F","o","o"," ","i","s"," ","l","a","u","n","c","h","i","n","g">>,
       <<"F","o","o"," ","t","o","k","e","n"," ","l","a","u","n","c","h">>,
       <<"F","o","o"," ","a","i","r","d","r","o","p">>,
       <<"$","F","O","O"," ","l","a","u","n","c","h">>,
       <<"Z","E","T","A">>,
       <<"o","r","b","i","t">>,
       <<"$","Z","T","A">>,
       <<"0","x","A","b","1","2","A","b","1","2","A","b","1","2","A","b","1","2","A","b","1","2","A","b","1","2","A","b","1","2","A","b","1","2","A","b","1","2","A","b","1","2">>,
       <<"h","t","t","p","s",":","/","/","t",".","c","o","/","x","1">>,
       <<"Z","e","t","a"," ","a","i","r","d","r","o","p">> >>

\* the phrases joined by single spaces
RECURSIVE Join(_)
Join(ws) ==
    IF ws = << >> THEN << >>
    ELSE IF Len(ws) = 1 THEN Vocabulary[ws[1]]
    ELSE Vocabulary[ws[1]] \o <<" ">> \o Join(Tail(ws))

Texts ==
    { Join(ws) : ws \in UNION { [1..k -> 1..Len(Vocabulary)] : k \in 0..MaxPhrases } }

ClassifyChannels == {NoChannel, "zeta_official", "zeta_partner", "crypto_chat"}

EmptyAnalysis ==
    [categories |-> << >>, context |-> << >>, projects |-> << >>,
     source_weight |-> DefaultWeight, new_projects |-> << >>]

InitClassify ==
    /\ InitConfig
    /\ InitEngine
    /\ InitDb
    /\ \/ \E x \in Texts \cup NonStrings, c \in ClassifyChannels :
            call = [op |-> "categorize_text", text |-> x, channel |-> c, done |-> FALSE]
       \/ \E x \in Texts :
            call = [op |-> "detect_new_projects", text |-> x, channel |-> NoChannel,
                    done |-> FALSE]
    /\ analysis = EmptyAnalysis
    /\ priority_score = NoScore

\* process_raw_data: categorize_text, then calculate_priority_score on its result
Classify ==
    /\ call.op = "categorize_text"
    /\ ~call.done
    /\ analysis' = categorize_text(call.text, call.channel)
    /\ priority_score' = calculate_priority_score(analysis')
    /\ call' = [call EXCEPT !.done = TRUE]
    /\ UNCHANGED <<cfgVars, engVars, dbVars>>

\* detect_new_projects called on the text as given
DetectNewProjects ==
    /\ call.op = "detect_new_projects"
    /\ ~call.done
    /\ analysis' = [analysis EXCEPT !.new_projects = detect_new_projects(call.text)]
    /\ call' = [call EXCEPT !.done = TRUE]
    /\ UNCHANGED <<cfgVars, engVars, priority_score, dbVars>>

NextClassify == Classify \/ DetectNewProjects

SpecClassify == InitClassify /\ [][NextClassify]_vars

(***************************************************************************)
(* Specification SpecOpp: rows are stored one at a time, then the          *)
(* aggregator scores one project over the rows stored.                     *)
(***************************************************************************)
\* the project ids scored: two stored projects and one that is not stored
ScoredIds == {1, 2, 3}

\* the queries over table analyzed_data
AnalyzedDataQueries == QueryExecutions \ {"get_project", "roi_get_project"}

\* the queries that fail in one call: none, any one, those over analyzed_data
\* (the table is missing), or all of them
FailureModes ==
    {{}, AnalyzedDataQueries, QueryExecutions} \cup { {q} : q \in QueryExecutions }

InitOpp ==
    /\ InitConfig
    /\ InitEngine
    /\ call = [op |-> "none", done |-> TRUE]
    /\ analysis = EmptyAnalysis
    /\ priority_score = NoScore
    /\ InitDb

\* db_utils.add_analyzed_data: one more row, before the scoring call
AddAnalyzedData ==
    /\ snapshot = NoSnapshot
    /\ Size(analyzed_data) < MaxRows
    /\ \E k \in Kinds : analyzed_data' = [analyzed_data EXCEPT ![k] = @ + 1]
    /\ call' = [op |-> "add_analyzed_data", done |-> TRUE]
    /\ UNCHANGED <<cfgVars, engVars, clsVars, db_projects, snapshot, raw_data, alerts>>

\* one call of calculate_opportunity_score
CalculateOpportunityScore ==
    /\ snapshot = NoSnapshot
    /\ \E pid \in ScoredIds, failed \in FailureModes :
         \E urgent \in TopTen(UrgentRows(analyzed_data, pid)) :
           /\ snapshot' = calculate_opportunity_score(analyzed_data, db_projects, pid,
                                                      failed, urgent)
           /\ call' = [op |-> "calculate_opportunity_score", project_id |-> pid,
                       failed |-> failed, done |-> TRUE]
    /\ UNCHANGED <<cfgVars, engVars, clsVars, analyzed_data, db_projects, raw_data, alerts>>

NextOpp == AddAnalyzedData \/ CalculateOpportunityScore

SpecOpp == InitOpp /\ [][NextOpp]_vars

(***************************************************************************)
(* Claims checked under SpecScore                                          *)
(***************************************************************************)
Scored == call.op = "calculate_priority_score" /\ call.done

ContextMultipliers ==
    [high_impact |-> Rat(13, 10), time_sensitive |-> Rat(14, 10), alpha |-> Rat(12, 10),
     risk |-> Rat(15, 10), opportunity |-> Rat(125, 100)]

CategoryMultipliers ==
    [urgent_action |-> Rat(15, 10), active_investment |-> Rat(13, 10),
     project_launch |-> Rat(125, 100), upcoming_opportunity |-> Rat(135, 100)]

\* the product of table[l] over the labels l of S that the table lists
RECURSIVE ProductOver(_, _)
ProductOver(table, S) ==
    IF S = {} THEN One
    ELSE LET l == CHOOSE x \in S : TRUE
             rest == ProductOver(table, S \ {l})
         IN  IF l \in DOMAIN table THEN RMul(rest, table[l].n, table[l].d) ELSE rest

RTimes(x, y) == RMul(x, y.n, y.d)

\* C1: the score is exactly 1.0 x project multiplier x the product of the
\* multipliers of the context indicators present x the product of the
\* multipliers of the categories present x source_weight; other labels add no
\* factor and the order of the lists does not matter.
C1_ScoreIsProduct ==
    Scored =>
        priority_score =
            RMul(RTimes(RTimes(RTimes(One, ProjectMultiplier(analysis.projects)),
                               ProductOver(ContextMultipliers, Range(analysis.context))),
                        ProductOver(CategoryMultipliers, Range(analysis.categories))),
                 analysis.source_weight, 100)

\* a scored classification with listed and unlisted labels, in reverse order
C1_Witness ==
    /\ Scored
    /\ analysis.context = <<"discovery", "risk", "alpha">>
    /\ analysis.categories = <<"defi", "upcoming_opportunity", "urgent_action">>
    /\ Len(analysis.projects) = 2
    /\ priority_score = Rat(729, 250)

\* C4: the score is > 0, and one more context indicator, category or matched
\* project never lowers it.
C4_PositiveAndMonotone ==
    Scored =>
        /\ priority_score.n > 0 /\ priority_score.d > 0
        /\ \A l \in Range(ContextLabels) \ Range(analysis.context) :
              RLeq(priority_score,
                   calculate_priority_score(
                       [analysis EXCEPT !.context = Append(@, l)]))
        /\ \A l \in Range(CategoryLabels) \ Range(analysis.categories) :
              RLeq(priority_score,
                   calculate_priority_score(
                       [analysis EXCEPT !.categories = Append(@, l)]))
        /\ \A e \in ProjectEntries :
              RLeq(priority_score,
                   calculate_priority_score(
                       [analysis EXCEPT !.projects = Append(@, e)]))

\* a scored classification that one more indicator strictly raises
C4_Witness ==
    /\ Scored
    /\ analysis.projects # << >>
    /\ "risk" \notin Range(analysis.context)
    /\ RLess(priority_score,
             calculate_priority_score([analysis EXCEPT !.context = Append(@, "risk")]))

\* C5: every weight get_source_weight returns lies in (0, 1], so the score is
\* at most the score of the same classification at source_weight 1.0.
C5_WeightOnlyDampens ==
    /\ \A wc \in WeightCalls :
          get_source_weight(wc[1], wc[2]) > 0 /\ get_source_weight(wc[1], wc[2]) <= 100
    /\ Scored =>
          RLeq(priority_score,
               calculate_priority_score([analysis EXCEPT !.source_weight = 100]))

\* a classification from an unknown source type, scored strictly below its
\* full-weight score
C5_Witness ==
    /\ Scored
    /\ analysis.source_weight = 40
    /\ RLess(priority_score,
             calculate_priority_score([analysis EXCEPT !.source_weight = 100]))

(***************************************************************************)
(* Claims checked under SpecOpp                                            *)
(***************************************************************************)
Snapshotted == snapshot # NoSnapshot
Completed == Snapshotted /\ "component_scores" \in DOMAIN snapshot

\* the stored rows of project pid whose age in days lies in lo..hi
Mentions(pid, lo, hi) ==
    Size([k \in Kinds |->
            IF RowKinds[k].project_id = pid /\ RowKinds[k].age \in lo..hi
            THEN analyzed_data[k] ELSE 0])

\* C6: for a project with no analyzed records the calculators return activity
\* 0.0, community growth 0.0, sentiment 0.5 and urgency 0.0.
C6_ZeroRecords ==
    (Completed /\ call.failed = {} /\ Size(RowsOf(analyzed_data, call.project_id)) = 0) =>
        /\ snapshot.component_scores.activity = 0
        /\ snapshot.component_scores.community_growth = 0
        /\ snapshot.component_scores.sentiment = SCALE \div 2
        /\ snapshot.component_scores.urgency = 0

\* C7: the five component scores lie in [0,1], and opportunity_score, the
\* 100-scaled sum of the components weighted 0.25/0.15/0.15/0.20/0.25, lies in
\* [0,100], whatever rows are stored.
C7_ScoresInRange ==
    /\ Snapshotted =>
          snapshot.opportunity_score >= 0 /\ snapshot.opportunity_score <= 100 * SCALE
    /\ Completed =>
          /\ \A c \in DOMAIN snapshot.component_scores :
                snapshot.component_scores[c] >= 0 /\ snapshot.component_scores[c] <= SCALE
          /\ snapshot.opportunity_score =
                25 * snapshot.component_scores.activity
                + 15 * snapshot.component_scores.community_growth
                + 15 * snapshot.component_scores.sentiment
                + 20 * snapshot.component_scores.urgency
                + 25 * snapshot.component_scores.roi_potential

\* a project scored over rows of priority 5.3: urgency at its cap, the score
\* above 90
C7_Witness ==
    /\ Completed
    /\ call.project_id = 1
    /\ call.failed = {}
    /\ analyzed_data[1] >= 10
    /\ RowKinds[1].priority_score > 2 * SCALE
    /\ snapshot.component_scores.urgency = SCALE
    /\ snapshot.opportunity_score > 90 * SCALE

\* C8: worth_participating is true exactly when opportunity_score >= 70.
C8_WorthThreshold ==
    Snapshotted =>
        (("worth_participating" \in DOMAIN snapshot /\ snapshot.worth_participating)
            <=> snapshot.opportunity_score >= 70 * SCALE)

\* five recent urgent airdrop mentions and five the week before: the score is
\* exactly 70 and the project is worth participating
C8_Witness ==
    /\ Completed
    /\ call.failed = {}
    /\ Mentions(call.project_id, 0, 7) = 5
    /\ Mentions(call.project_id, 8, 14) = 5
    /\ snapshot.opportunity_score = 70 * SCALE
    /\ snapshot.worth_participating

\* the sigmoid of the growth ratio n/d: 1.0 / (1.0 + exp(-1.5 * (n/d - 1.0)))
GrowthOfRatio(n, d) == Logistic(-3 * (n - d), 2 * d)

\* C9: with a positive prior-week count, community_growth is above 0.5 when the
\* recent-week count is larger, below 0.5 when it is smaller and exactly 0.5
\* when the two are equal; with a prior count of 0 the recent count is the ratio.
C9_GrowthComparesWeeks ==
    (Completed /\ call.failed \cap {"growth_recent", "growth_previous"} = {}) =>
        LET recent == Mentions(call.project_id, 0, 7)
            prior == Mentions(call.project_id, 8, 14)
            growth == snapshot.component_scores.community_growth
        IN  /\ (prior > 0 /\ recent > prior) => growth > SCALE \div 2
            /\ (prior > 0 /\ recent < prior) => growth < SCALE \div 2
            /\ (prior > 0 /\ recent = prior) => growth = SCALE \div 2
            /\ prior = 0 => growth = GrowthOfRatio(recent, 1)

\* 12 mentions this week against 3 the week before
C9_Witness ==
    /\ Completed
    /\ call.failed = {}
    /\ Mentions(call.project_id, 0, 7) = 12
    /\ Mentions(call.project_id, 8, 14) = 3
    /\ snapshot.component_scores.community_growth > SCALE \div 2

\* C19: when a query of the scoring fails (the project lookup, or the
\* activity count issued for every project found), calculate_opportunity_score
\* returns an error result, not a snapshot with component scores.
C19_QueryFailureSurfaced ==
    (Snapshotted /\ call.failed \cap {"get_project", "activity"} # {}) =>
        /\ "error" \in DOMAIN snapshot
        /\ "component_scores" \notin DOMAIN snapshot

\* the ROI tier value of an opportunity type: low 1.0, medium 2.0, high 3.0,
\* and 1.0 for a type that is not known
TierValue(opportunity_type) ==
    IF \E o \in 1..Len(opportunity_categories) :
           opportunity_categories[o].label = opportunity_type
    THEN roi_levels[opportunity_categories[
             CHOOSE o \in 1..Len(opportunity_categories) :
                 opportunity_categories[o].label = opportunity_type].roi_potential]
    ELSE 1 * SCALE

\* C25: roi_potential is the ROI tier value of the winning type with
\* 0.5 x (activity - 0.5) and 0.5 x (sentiment - 0.5) added to it, the sum
\* divided by 3.0 and clamped to [0, 1] (to within the rounding of the fixed
\* point arithmetic).
C25_RoiAdditive ==
    (Snapshotted /\ call.failed = {} /\ "component_scores" \in DOMAIN snapshot) =>
        LET scores == snapshot.component_scores
            sum == TierValue(snapshot.opportunity_type)
                   + (scores.activity - SCALE \div 2) \div 2
                   + (scores.sentiment - SCALE \div 2) \div 2
            claimed == Clamp01(sum \div 3)
        IN  /\ claimed - scores.roi_potential <= 5
            /\ scores.roi_potential - claimed <= 5

(***************************************************************************)
(* Claims checked under SpecClassify                                       *)
(***************************************************************************)
Classified == call.op = "categorize_text" /\ call.done
Detected == call.op = "detect_new_projects" /\ call.done

\* the tier the configuration tracks a project name under, or "none"
TierOf(name) ==
    LET all == get_all_projects(projects)
    IN  IF \E j \in 1..Len(all) : all[j].name = name
        THEN all[CHOOSE j \in 1..Len(all) : all[j].name = name].priority
        ELSE "none"

\* C2: the project multiplier applied to the list identify_projects returns is
\* 1.5 when any matched project is high tier, otherwise 1.2 when at least one
\* project matched (by any rule, a tracked channel alone included), otherwise 1.0.
C2_ProjectMultiplierByTier ==
    Classified =>
        ProjectMultiplier(analysis.projects) =
            IF \E i \in 1..Len(analysis.projects) :
                   TierOf(analysis.projects[i].name) = "high_priority"
            THEN Rat(15, 10)
            ELSE IF analysis.projects # << >> THEN Rat(12, 10)
            ELSE One

ScenarioText == <<"$","A","B","C"," ","a","i","r","d","r","o","p"," ","c","l","a","i","m"," ","n","o","w",","," ","d","e","a","d","l","i","n","e"," ","t","o","d","a","y","!">>

\* C3: "$ABC airdrop claim now, deadline today!" from an untracked source has
\* categories urgent_action and upcoming_opportunity, context time_sensitive,
\* weight 0.4, and its score is exactly the product of the multipliers of the
\* matched categories and context indicators times 0.4.
C3_AirdropScenario ==
    (Classified /\ call.text = ScenarioText /\ call.channel \notin DOMAIN tracked_channels) =>
        /\ {"urgent_action", "upcoming_opportunity"} \subseteq Range(analysis.categories)
        /\ "time_sensitive" \in Range(analysis.context)
        /\ analysis.source_weight = 40
        /\ priority_score =
              RMul(RTimes(ProductOver(CategoryMultipliers, Range(analysis.categories)),
                          ProductOver(ContextMultipliers, Range(analysis.context))),
                   4, 10)

\* the scenario classified from an untracked channel: 1.5 x 1.35 x 1.4 x 0.4
C3_Witness ==
    /\ Classified
    /\ call.text = ScenarioText
    /\ call.channel = "crypto_chat"
    /\ analysis.categories = <<"urgent_action", "upcoming_opportunity">>
    /\ analysis.context = <<"time_sensitive">>
    /\ priority_score = Rat(1134, 1000)

\* t is one match of one discovery pattern and nothing else, the name matched
\* once and not tracked
SingleMention(t) ==
    /\ IsStr(t)
    /\ Cardinality({p \in 1..Len(discovery_patterns) :
                       FindAll(discovery_patterns[p], t, 1) # << >>}) = 1
    /\ \E p \in 1..Len(discovery_patterns) :
          /\ Len(FindAll(discovery_patterns[p], t, 1)) = 1
          /\ MatchAt(discovery_patterns[p], t, 1).ok
          /\ MatchAt(discovery_patterns[p], t, 1).end = Len(t) + 1
          /\ CountFrom(lower(t), lower(MatchAt(discovery_patterns[p], t, 1).group), 1) = 1
          /\ TierOf(MatchAt(discovery_patterns[p], t, 1).group) = "none"

\* C10: a text that is a single mention of an untracked name matching one
\* discovery pattern gives that candidate with confidence exactly 0.6.
C10_SingleMentionBase ==
    (Detected /\ SingleMention(call.text)) =>
        /\ Len(analysis.new_projects) = 1
        /\ analysis.new_projects[1].confidence = 60

\* what the discovery patterns find in t, in pattern order then match order
RawMatches(t) ==
    Flatten([p \in 1..Len(discovery_patterns) |-> FindAll(discovery_patterns[p], t, 1)])

\* name is the name of a tracked project, letter case aside
Tracked(name) ==
    \E j \in 1..Len(get_all_projects(projects)) :
        lower(get_all_projects(projects)[j].name) = lower(name)

\* C11: detect_new_projects returns no candidate named as a tracked project and
\* no two candidates of the same name, letter case aside; every untracked match
\* is returned under the spelling of its first occurrence, in first-occurrence
\* order.
C11_CandidatesUntrackedUnique ==
    Detected =>
        LET raw == RawMatches(call.text)
            res == analysis.new_projects
            first(k) == \A h \in 1..(k - 1) : lower(raw[h]) # lower(raw[k])
        IN  /\ \A i \in 1..Len(res) : ~Tracked(res[i].name)
            /\ \A i, j \in 1..Len(res) :
                  i # j => lower(res[i].name) # lower(res[j].name)
            /\ \A k \in 1..Len(raw) :
                  (first(k) /\ ~Tracked(raw[k])) =>
                      \E i \in 1..Len(res) :
                          /\ res[i].name = raw[k]
                          /\ i = Cardinality({h \in 1..k :
                                    /\ ~Tracked(raw[h])
                                    /\ \A g \in 1..(h - 1) : lower(raw[g]) # lower(raw[h])})
            /\ \A i \in 1..Len(res) : \E k \in 1..Len(raw) : res[i].name = raw[k]

\* "Foo airdrop $FOO launch": Foo and FOO are found, Foo alone is returned
C11_Witness ==
    /\ Detected
    /\ RawMatches(call.text) = << <<"F","o","o">>, <<"F","O","O">> >>
    /\ Len(analysis.new_projects) = 1
    /\ analysis.new_projects[1].name = <<"F","o","o">>

\* the rules of identify_projects, in the order they are applied
RuleOrder == <<"channel", "keyword", "symbol", "contract">>

\* the text the rules of identify_projects read when categorize_text calls it
RuleText == preprocess_text(preprocess_text(call.text))

\* the rule matches the project of that name in the call classified
RuleMatches(rule, name) ==
    LET all == get_all_projects(projects)
    IN  CASE rule = "channel" ->
                /\ call.channel \in DOMAIN tracked_channels
                /\ tracked_channels[call.channel].project = name
          [] rule = "keyword" ->
                \E k \in 1..Len(tracked_keywords) :
                    /\ Contains(RuleText, tracked_keywords[k].keyword)
                    /\ \E i \in 1..Len(tracked_keywords[k].projects) :
                          tracked_keywords[k].projects[i].project = name
          [] rule = "symbol" ->
                \E s \in Range(FindAll(SymbolPattern, RuleText, 1)), j \in 1..Len(all) :
                    lower(s) = lower(all[j].symbol) /\ all[j].name = name
          [] rule = "contract" ->
                \E c \in Range(FindAll(ContractPattern, RuleText, 1)), j \in 1..Len(all) :
                    /\ all[j].name = name
                    /\ \E k \in 1..Len(all[j].contracts) :
                          lower(all[j].contracts[k]) = lower(c)

\* the confidence the rule gives the project
RuleConfidence(rule, name) ==
    CASE rule = "channel" -> tracked_channels[call.channel].weight
      [] rule = "keyword" -> IF TierOf(name) = "high_priority" THEN 80 ELSE 60
      [] rule = "symbol" -> 70
      [] rule = "contract" -> 90

\* C12: identify_projects returns at most one entry per project name, for
\* exactly the projects some rule matches, and the entry is that of the first
\* rule (channel, keyword, symbol, contract) matching the project, with that
\* rule's confidence and origin.
C12_FirstRuleWins ==
    Classified =>
        LET res == analysis.projects
            all == get_all_projects(projects)
            firstRule(name) ==
                RuleOrder[CHOOSE r \in 1..Len(RuleOrder) :
                    /\ RuleMatches(RuleOrder[r], name)
                    /\ \A q \in 1..(r - 1) : ~RuleMatches(RuleOrder[q], name)]
        IN  /\ \A i, j \in 1..Len(res) : i # j => res[i].name # res[j].name
            /\ \A p \in 1..Len(all) :
                  (\E r \in 1..Len(RuleOrder) : RuleMatches(RuleOrder[r], all[p].name))
                      <=> (\E i \in 1..Len(res) : res[i].name = all[p].name)
            /\ \A i \in 1..Len(res) :
                  /\ \E p \in 1..Len(all) : all[p].name = res[i].name
                  /\ res[i].source = firstRule(res[i].name)
                  /\ res[i].confidence = RuleConfidence(firstRule(res[i].name), res[i].name)

\* Zeta matched by its channel, its keyword and its contract address: the
\* channel entry alone is returned
C12_Witness ==
    /\ Classified
    /\ RuleMatches("channel", Zeta)
    /\ RuleMatches("keyword", Zeta)
    /\ RuleMatches("contract", Zeta)
    /\ analysis.projects =
          << [name |-> Zeta, confidence |-> 100, source |-> "channel"] >>

\* the raw text holds '$' followed by the symbol of the project of that name,
\* as r'\$([A-Z]{2,10})\b' finds it
SymbolMentioned(name) ==
    \E j \in 1..Len(get_all_projects(projects)) :
        /\ get_all_projects(projects)[j].name = name
        /\ get_all_projects(projects)[j].symbol \in Range(FindAll(SymbolPattern, call.text, 1))

\* C13: a raw text containing $SYM, SYM the symbol of a tracked project that
\* no channel or keyword rule matches, is classified with that project, with
\* confidence 0.7 and origin symbol.
C13_SymbolRecognised ==
    Classified =>
        \A p \in 1..Len(get_all_projects(projects)) :
            LET name == get_all_projects(projects)[p].name
            IN  (/\ SymbolMentioned(name)
                 /\ ~RuleMatches("channel", name)
                 /\ ~RuleMatches("keyword", name)) =>
                    \E i \in 1..Len(analysis.projects) :
                        /\ analysis.projects[i].name = name
                        /\ analysis.projects[i].confidence = 70
                        /\ analysis.projects[i].source = "symbol"

\* C16: a payload that is not a string is classified as nothing: no
\* categories, no context, no projects, no candidates, the default source
\* weight, and calculate_priority_score returns that weight.
C16_NonTextEmpty ==
    (Classified /\ ~IsStr(call.text)) =>
        /\ analysis = EmptyAnalysis
        /\ priority_score = Rat(DefaultWeight, 100)

(***************************************************************************)
(* Specification SpecPreprocess: preprocess_text applied to a payload, and *)
(* then to its own result.                                                 *)
(***************************************************************************)
\* most pieces joined into one payload
MaxPieces == 4

\* what the payloads are assembled from: URL parts in both cases, the three
\* markers, a word and whitespace runs
Pieces ==
    << <<"h","t","t","p">>,
       <<":","/","/">>,
       <<"H","T","T","P","S",":","/","/","x">>,
       <<"x">>,
       <<"$">>,
       <<"#">>,
       <<"@">>,
       <<" ">>,
       <<"\t","\n">> >>

Payloads ==
    NonStrings \cup
    { Flatten([i \in 1..Len(ws) |-> Pieces[ws[i]]]) :
        ws \in UNION { [1..k -> 1..Len(Pieces)] : k \in 0..MaxPieces } }

InitPreprocess ==
    /\ InitConfig
    /\ InitEngine
    /\ InitDb
    /\ \E x \in Payloads :
          call = [op |-> "preprocess_text", text |-> x, done |-> FALSE, again |-> FALSE]
    /\ analysis = EmptyAnalysis
    /\ priority_score = NoScore

\* preprocess_text(text)
PreprocessText ==
    /\ call.op = "preprocess_text"
    /\ ~call.done
    /\ call' = [op |-> "preprocess_text", text |-> call.text, done |-> TRUE,
                again |-> FALSE, result |-> preprocess_text(call.text)]
    /\ UNCHANGED <<cfgVars, engVars, clsVars, dbVars>>

\* preprocess_text applied to what preprocess_text returned
PreprocessAgain ==
    /\ call.op = "preprocess_text"
    /\ call.done
    /\ ~call.again
    /\ call' = [op |-> "preprocess_text", text |-> call.text, done |-> TRUE,
                again |-> TRUE, result |-> call.result,
                second |-> preprocess_text(call.result)]
    /\ UNCHANGED <<cfgVars, engVars, clsVars, dbVars>>

NextPreprocess == PreprocessText \/ PreprocessAgain

SpecPreprocess == InitPreprocess /\ [][NextPreprocess]_vars

(***************************************************************************)
(* Claims checked under SpecPreprocess                                     *)
(***************************************************************************)
Preprocessed == call.op = "preprocess_text" /\ call.done
PreprocessedTwice == Preprocessed /\ call.again

\* C14: preprocess_text is idempotent: applied to its own result it returns
\* that result, whatever the payload (case mix, markers, URLs, whitespace
\* runs, not a string).
C14_PreprocessIdempotent ==
    PreprocessedTwice => call.second = call.result

\* a payload with a marker, an upper-case URL and trailing whitespace, cut
\* down to its one word and left so by the second application
C14_Witness ==
    /\ PreprocessedTwice
    /\ call.text = <<"x","$","H","T","T","P","S",":","/","/","x"," ">>
    /\ call.result = <<"x">>
    /\ call.second = <<"x">>

(***************************************************************************)
(* Specification SpecSession: one classifier classifying message after     *)
(* message; call.seen keeps the first result of every message classified.  *)
(***************************************************************************)
SessionTexts == { Vocabulary[1], Vocabulary[2], Vocabulary[8] }
SessionChannels == {NoChannel, "zeta_official"}

NoMessage == [text |-> << >>, channel |-> "nothing"]

InitSession ==
    /\ InitConfig
    /\ InitEngine
    /\ InitDb
    /\ call = [op |-> "session", text |-> << >>, channel |-> NoChannel, done |-> FALSE,
               repeat |-> FALSE, prev |-> NoMessage, seen |-> << >>]
    /\ analysis = EmptyAnalysis
    /\ priority_score = NoScore

\* categorize_text, then calculate_priority_score on its result, for the
\* next message of the session
ClassifyMessage ==
    /\ call.op = "session"
    /\ \E x \in SessionTexts, c \in SessionChannels :
          LET msg == [text |-> x, channel |-> c]
          IN  /\ analysis' = categorize_text(x, c)
              /\ priority_score' = calculate_priority_score(analysis')
              /\ call' = [op |-> "session", text |-> x, channel |-> c, done |-> TRUE,
                          repeat |-> msg \in DOMAIN call.seen,
                          prev |-> IF call.done
                                   THEN [text |-> call.text, channel |-> call.channel]
                                   ELSE NoMessage,
                          seen |-> IF msg \in DOMAIN call.seen THEN call.seen
                                   ELSE [k \in DOMAIN call.seen \cup {msg} |->
                                           IF k = msg
                                           THEN [analysis |-> analysis',
                                                 priority_score |-> priority_score']
                                           ELSE call.seen[k]]]
    /\ UNCHANGED <<cfgVars, engVars, dbVars>>

NextSession == ClassifyMessage

SpecSession == InitSession /\ [][NextSession]_vars

(***************************************************************************)
(* Claims checked under SpecSession                                        *)
(***************************************************************************)
InSession == call.op = "session" /\ call.done

remove_project(prj, priority, project_name) ==
    [prj EXCEPT ![priority] =
        SelectSeq(@, LAMBDA p : lower(p.name) # lower(project_name))]

\* ProjectConfig.add_project (priority is one of the two tiers)
add_project(prj, priority, project_data) ==
    [remove_project(prj, priority, project_data.name) EXCEPT ![priority] =
        Append(@, [name |-> project_data.name,
                   symbol |-> project_data.symbol,
                   official_channels |-> project_data.official_channels,
                   partner_channels |-> project_data.partner_channels,
                   keywords |-> project_data.keywords,
                   contracts |-> project_data.contracts])]

\* a NULL id
NoId == 0

\* db_utils.get_project_by_name: the id of the row of that name, NoId for
\* None; the comparison of SQL is exact
get_project_by_name(tbl, project_name, failed) ==
    IF failed \/ ~\E id \in DOMAIN tbl : tbl[id].name = project_name THEN NoId
    ELSE CHOOSE id \in DOMAIN tbl : tbl[id].name = project_name

\* db_utils.add_project: the table after the insert and the id returned (an
\* insert the table rejects is an insert that fails)
db_add_project(tbl, row, failed) ==
    IF failed
    THEN [table |-> tbl, id |-> NoId]
    ELSE [table |-> Append(tbl, row), id |-> Len(tbl) + 1]

\* db_utils.add_alert, the message left out
add_alert(rows, project_id, alert_type, priority, failed) ==
    IF failed THEN rows
    ELSE Append(rows, [project_id |-> project_id, alert_type |-> alert_type,
                       priority |-> priority])

\* db_utils.add_analyzed_data
add_analyzed_data(rows, raw_data_id, project_id, cats, score, context, failed) ==
    IF failed THEN rows
    ELSE Append(rows, [raw_data_id |-> raw_data_id, project_id |-> project_id,
                       categories |-> cats, priority_score |-> score,
                       context |-> context])

\* analysis.get('categories', ['unknown'])[0] if analysis.get('categories') else 'unknown'
FirstCategory(a) == IF a.categories # << >> THEN a.categories[1] ELSE "unknown"

\* handle_projects, one known project, a missing one skipped below 0.5 only
HandleKnown_from_half(db, a, score, content, raw_data_id, project, failed) ==
    LET found == get_project_by_name(db.projects, project.name,
                                     "get_project_by_name" \in failed)
        skipped == found = NoId /\ project.confidence < 50
        created == db_add_project(db.projects,
                       [name |-> project.name, is_active |-> 1,
                        category |-> FirstCategory(a),
                        participation_status |-> "monitoring",
                        source |-> "auto-detection",
                        worth_participating |-> IF RLess(Rat(13, 10), score) THEN 1 ELSE 0],
                       "add_project" \in failed)
        project_id == IF found = NoId THEN created.id ELSE found
        raisedNew == found = NoId /\ ~IsStr(content)
        alerts1 == IF found = NoId /\ ~raisedNew
                   THEN add_alert(db.alerts, project_id, "new_project", "high",
                                  "add_alert" \in failed)
                   ELSE db.alerts
        high == RLess(Rat(13, 10), score)
        alert_type == IF \E i \in 1..Len(a.categories) : a.categories[i] = "urgent_action"
                      THEN "urgent"
                      ELSE IF \E i \in 1..Len(a.context) : a.context[i] = "risk"
                           THEN "risk"
                           ELSE IF \E i \in 1..Len(a.context) : a.context[i] = "opportunity"
                                THEN "opportunity" ELSE "update"
        raisedHigh == ~raisedNew /\ high /\ ~IsStr(content)
    IN  IF skipped THEN db
        ELSE [projects |-> IF found = NoId THEN created.table ELSE db.projects,
              analyzed |-> IF raisedNew THEN db.analyzed
                           ELSE add_analyzed_data(db.analyzed, raw_data_id, project_id,
                                    a.categories, score, a.context,
                                    "add_analyzed_data" \in failed),
              alerts |-> IF high /\ ~raisedNew /\ ~raisedHigh
                         THEN add_alert(alerts1, project_id, alert_type,
                                        IF RLess(Rat(15, 10), score) THEN "high" ELSE "medium",
                                        "add_alert" \in failed)
                         ELSE alerts1,
              raised |-> raisedNew \/ raisedHigh]

\* handle_projects, one known project: the tables after it.  content[:100]
\* raises when the content is not a string.
HandleKnown(db, a, score, content, raw_data_id, project, failed) ==
    LET found == get_project_by_name(db.projects, project.name,
                                     "get_project_by_name" \in failed)
        skipped == found = NoId /\ project.confidence < 70
        created == db_add_project(db.projects,
                       [name |-> project.name, is_active |-> 1,
                        category |-> FirstCategory(a),
                        participation_status |-> "monitoring",
                        source |-> "auto-detection",
                        worth_participating |-> IF RLess(Rat(13, 10), score) THEN 1 ELSE 0],
                       "add_project" \in failed)
        project_id == IF found = NoId THEN created.id ELSE found
        raisedNew == found = NoId /\ ~IsStr(content)
        alerts1 == IF found = NoId /\ ~raisedNew
                   THEN add_alert(db.alerts, project_id, "new_project", "high",
                                  "add_alert" \in failed)
                   ELSE db.alerts
        high == RLess(Rat(13, 10), score)
        alert_type == IF \E i \in 1..Len(a.categories) : a.categories[i] = "urgent_action"
                      THEN "urgent"
                      ELSE IF \E i \in 1..Len(a.context) : a.context[i] = "risk"
                           THEN "risk"
                           ELSE IF \E i \in 1..Len(a.context) : a.context[i] = "opportunity"
                                THEN "opportunity" ELSE "update"
        raisedHigh == ~raisedNew /\ high /\ ~IsStr(content)
    IN  IF skipped THEN db
        ELSE [projects |-> IF found = NoId THEN created.table ELSE db.projects,
              analyzed |-> IF raisedNew THEN db.analyzed
                           ELSE add_analyzed_data(db.analyzed, raw_data_id, project_id,
                                    a.categories, score, a.context,
                                    "add_analyzed_data" \in failed),
              alerts |-> IF high /\ ~raisedNew /\ ~raisedHigh
                         THEN add_alert(alerts1, project_id, alert_type,
                                        IF RLess(Rat(15, 10), score) THEN "high" ELSE "medium",
                                        "add_alert" \in failed)
                         ELSE alerts1,
              raised |-> raisedNew \/ raisedHigh]

\* handle_projects, one new-project candidate
HandleNew(db, a, content, raw_data_id, candidate, failed) ==
    LET found == get_project_by_name(db.projects, candidate.name,
                                     "get_project_by_name" \in failed)
        created == db_add_project(db.projects,
                       [name |-> candidate.name, is_active |-> 1,
                        category |-> FirstCategory(a),
                        participation_status |-> "discovery",
                        source |-> "discovery",
                        worth_participating |-> IF candidate.confidence > 80 THEN 1 ELSE 0],
                       "add_project" \in failed)
    IN  IF candidate.confidence < 70 \/ found # NoId THEN db
        ELSE IF ~IsStr(content)
             THEN [db EXCEPT !.projects = created.table, !.raised = TRUE]
             ELSE [projects |-> created.table,
                   analyzed |-> add_analyzed_data(db.analyzed, raw_data_id, created.id,
                                    a.categories, Rat(candidate.confidence, 100),
                                    a.context \o <<"discovery">>,
                                    "add_analyzed_data" \in failed),
                   alerts |-> add_alert(db.alerts, created.id, "discovery", "medium",
                                        "add_alert" \in failed),
                   raised |-> FALSE]

\* DataClassifier.handle_projects from entry i of the known projects, then
\* from entry j of the candidates, until something raises: the one outcome
RECURSIVE HandleFrom(_, _, _, _, _, _, _, _)
HandleFrom(db, a, score, content, raw_data_id, i, j, failed) ==
    IF db.raised THEN {db}
    ELSE IF i <= Len(a.projects)
    THEN UNION { HandleFrom(next, a, score, content, raw_data_id, i + 1, j, failed) :
                   next \in {HandleKnown(db, a, score, content, raw_data_id,
                                         a.projects[i], failed)} }
    ELSE IF j <= Len(a.new_projects)
    THEN UNION { HandleFrom(next, a, score, content, raw_data_id, i, j + 1, failed) :
                   next \in {HandleNew(db, a, content, raw_data_id,
                                       a.new_projects[j], failed)} }
    ELSE {db}

handle_projects(db, a, score, content, raw_data_id, failed) ==
    HandleFrom(db, a, score, content, raw_data_id, 1, 1, failed)

\* DataClassifier.process_raw_data: the tables and the raw_data rows after it
process_raw_data(st, raw_data_id, failed) ==
    UNION { UNION { { [db |-> db,
                       raw |-> IF db.raised \/ "mark_data_processed" \in failed
                               THEN st.raw
                               ELSE [st.raw EXCEPT ![raw_data_id].processed = 1]] :
                      db \in handle_projects([st.db EXCEPT !.raised = FALSE], a, score,
                                             st.raw[raw_data_id].content, raw_data_id,
                                             failed) } :
                    score \in {calculate_priority_score(a)} } :
            a \in {categorize_text(st.raw[raw_data_id].content,
                                   st.raw[raw_data_id].channel)} }

\* the loop of process_unprocessed_data over the rows selected, by id
RECURSIVE ProcessRows(_, _, _)
ProcessRows(st, ids, failed) ==
    IF ids = {} THEN {st}
    ELSE UNION { ProcessRows(next, ids \ {First(ids)}, failed) :
                   next \in process_raw_data(st, First(ids), failed) }

\* DataClassifier.process_unprocessed_data
process_unprocessed_data(st, failed) ==
    IF "select_unprocessed" \in failed THEN {st}
    ELSE ProcessRows(st, {id \in DOMAIN st.raw : st.raw[id].processed = 0}, failed)

(***************************************************************************)
(* Specification SpecPipeline: messages wait in raw_data; the operator     *)
(* adds projects to the configuration and process_unprocessed_data runs,   *)
(* each run with the database operations of one failure mode failing.      *)
(***************************************************************************)
\* most runs of process_unprocessed_data, most add_project calls, most messages
MaxRuns == 2
MaxAdds == 1
MaxMessages == 2

Foo == <<"F","o","o">>

PipelineMessages ==
    { [content |-> <<"Z","e","t","a"," ","a","i","r","d","r","o","p">>,
       channel |-> "crypto_chat", processed |-> 0],
      [content |-> <<"F","o","o"," ","a","i","r","d","r","o","p"," ","f","o","o">>,
       channel |-> NoChannel, processed |-> 0],
      [content |-> <<"None">>, channel |-> "zeta_official", processed |-> 0] }

PipelineFailures ==
    { {}, {"mark_data_processed"}, {"add_analyzed_data"}, {"get_project_by_name"},
      {"add_project"}, {"get_project_by_name", "add_project"}, {"select_unprocessed"},
      {"add_alert"} }

AddedProjects ==
    { [name |-> n, symbol |-> << >>, official_channels |-> << >>,
       partner_channels |-> << >>, keywords |-> << >>, contracts |-> << >>] :
        n \in { <<"z","e","t","a">>, Foo } }

InitPipeline ==
    /\ InitConfig
    /\ InitEngine
    /\ analyzed_data = << >>
    /\ db_projects \in { << >>, InitialDbProjects }
    /\ snapshot = NoSnapshot
    /\ raw_data \in UNION { [1..k -> PipelineMessages] : k \in 1..MaxMessages }
    /\ alerts = << >>
    /\ call = [op |-> "none", runs |-> 0, adds |-> 0, failed |-> {}]
    /\ analysis = EmptyAnalysis
    /\ priority_score = NoScore

\* project_config.add_project(priority, project_data)
AddProject ==
    /\ call.adds < MaxAdds
    /\ \E k \in 1..Len(Tiers), data \in AddedProjects :
          projects' = add_project(projects, Tiers[k], data)
    /\ call' = [op |-> "add_project", runs |-> call.runs, adds |-> call.adds + 1,
                failed |-> {}]
    /\ UNCHANGED <<tracked_channels, tracked_keywords, engVars, clsVars, dbVars>>

\* classifier.process_unprocessed_data()
ProcessUnprocessedData ==
    /\ call.runs < MaxRuns
    /\ \E failed \in PipelineFailures :
          \E st \in process_unprocessed_data(
                        [db |-> [projects |-> db_projects, analyzed |-> analyzed_data,
                                 alerts |-> alerts, raised |-> FALSE],
                         raw |-> raw_data], failed) :
              /\ db_projects' = st.db.projects
              /\ analyzed_data' = st.db.analyzed
              /\ alerts' = st.db.alerts
              /\ raw_data' = st.raw
              /\ call' = [op |-> "process_unprocessed_data", runs |-> call.runs + 1,
                          adds |-> call.adds, failed |-> failed]
    /\ UNCHANGED <<cfgVars, engVars, clsVars, snapshot>>

NextPipeline == AddProject \/ ProcessUnprocessedData

SpecPipeline == InitPipeline /\ [][NextPipeline]_vars

(***************************************************************************)
(* Claims checked under SpecPipeline                                       *)
(***************************************************************************)
\* the analyzed_data rows stored for a raw message
RecordsOf(rows, raw_data_id) ==
    Cardinality({i \in 1..Len(rows) : rows[i].raw_data_id = raw_data_id})

\* C20: classification records are write-once per message: once rows of
\* analyzed_data exist for a raw message, no step stores further rows for it.
C20_WriteOnce ==
    [][\A id \in DOMAIN raw_data :
          RecordsOf(analyzed_data, id) > 0 =>
              RecordsOf(analyzed_data', id) = RecordsOf(analyzed_data, id)]_vars

\* C18: no two projects the configuration tracks, and no two rows of table
\* projects, have names that are equal letter case aside.
C18_NamesUniqueCaseInsensitive ==
    LET all == get_all_projects(projects)
    IN  /\ \A i, j \in 1..Len(all) : i # j => lower(all[i].name) # lower(all[j].name)
        /\ \A i, j \in DOMAIN db_projects :
              i # j => lower(db_projects[i].name) # lower(db_projects[j].name)

(***************************************************************************)
(* The batch over all projects: analyze_all_projects and                   *)
(* update_project_opportunity.  db is [rows, projects, alerts]: table      *)
(* analyzed_data as kind -> number of rows, table projects as id -> row,   *)
(* table alerts as the rows in insertion order.                            *)
(***************************************************************************)
\* db_utils.get_all_projects(active_only=True): the ids of the rows selected,
\* in the order of the table; no row when the query fails
RECURSIVE ActiveFrom(_, _)
ActiveFrom(tbl, id) ==
    IF id \notin DOMAIN tbl THEN << >>
    ELSE (IF tbl[id].is_active = 1 THEN <<id>> ELSE << >>) \o ActiveFrom(tbl, id + 1)

db_get_all_projects(tbl, failed) == IF failed THEN << >> ELSE ActiveFrom(tbl, 1)

\* db_utils.update_project: the table after UPDATE projects SET ... WHERE id = ?
update_project(tbl, project_id, project_data, failed) ==
    IF failed \/ project_id \notin DOMAIN tbl THEN tbl
    ELSE [tbl EXCEPT ![project_id] =
             [f \in DOMAIN @ \cup DOMAIN project_data |->
                 IF f \in DOMAIN project_data THEN project_data[f] ELSE @[f]]]

\* update_project_opportunity raising no alert above priority medium
StoreOpportunity_medium_only(db, project_id, opportunity, failed) ==
    IF "error" \in DOMAIN opportunity THEN [db |-> db, result |-> opportunity]
    ELSE LET update_data ==
                 [score |-> opportunity.opportunity_score,
                  roi_potential |-> opportunity.opportunity_type,
                  roi_score |-> opportunity.component_scores.roi_potential * 100,
                  worth_participating |-> IF opportunity.worth_participating THEN 1 ELSE 0]
         IN  [db |-> [db EXCEPT
                        !.projects = update_project(@, project_id, update_data,
                                                    "update_project" \in failed),
                        !.alerts =
                            IF opportunity.opportunity_score >= 70 * SCALE
                            THEN add_alert(@, project_id, "opportunity", "medium",
                                           "add_alert" \in failed)
                            ELSE @],
              result |-> opportunity]

\* update_project_opportunity after the scoring call returned opportunity
StoreOpportunity(db, project_id, opportunity, failed) ==
    IF "error" \in DOMAIN opportunity THEN [db |-> db, result |-> opportunity]
    ELSE LET update_data ==
                 [score |-> opportunity.opportunity_score,
                  roi_potential |-> opportunity.opportunity_type,
                  roi_score |-> opportunity.component_scores.roi_potential * 100,
                  worth_participating |-> IF opportunity.worth_participating THEN 1 ELSE 0]
         IN  [db |-> [db EXCEPT
                        !.projects = update_project(@, project_id, update_data,
                                                    "update_project" \in failed),
                        !.alerts =
                            IF opportunity.opportunity_score >= 80 * SCALE
                            THEN add_alert(@, project_id, "opportunity", "high",
                                           "add_alert" \in failed)
                            ELSE IF opportunity.opportunity_score >= 70 * SCALE
                            THEN add_alert(@, project_id, "opportunity", "medium",
                                           "add_alert" \in failed)
                            ELSE @],
              result |-> opportunity]

\* OpportunityAnalyzer.update_project_opportunity: the outcomes, one for each
\* answer the urgency query can give
update_project_opportunity(db, project_id, failed) ==
    UNION { { StoreOpportunity(db, project_id, opportunity, failed) :
                opportunity \in {calculate_opportunity_score(db.rows, db.projects,
                                                             project_id, failed, urgent)} } :
            urgent \in TopTen(UrgentRows(db.rows, project_id)) }

\* min_activity = 0.3
min_activity == (3 * SCALE) \div 10

\* x.get('opportunity_score', 0)
SortKey(x) == IF "opportunity_score" \in DOMAIN x THEN x.opportunity_score ELSE 0

\* results.sort(key=..., reverse=True): x put into the sorted list s behind the
\* entries whose key is not below its own (the sort is stable)
RECURSIVE InsertDescending(_, _)
InsertDescending(s, x) ==
    IF s = << >> THEN <<x>>
    ELSE IF SortKey(s[1]) >= SortKey(x) THEN <<s[1]>> \o InsertDescending(Tail(s), x)
    ELSE <<x>> \o s

\* the results left in the order of the loop
SortDescending_unsorted(results, n) == SubSeq(results, 1, n)

RECURSIVE SortDescending(_, _)
SortDescending(results, n) ==
    IF n = 0 THEN << >> ELSE InsertDescending(SortDescending(results, n - 1), results[n])

\* one pass of the loop of analyze_all_projects over project ids[i]
AnalyzeProject(st, project_id, failed) ==
    UNION { IF activity_score < min_activity
            THEN { [db |-> st.db,
                    results |-> Append(st.results,
                        [project_id |-> project_id,
                         project_name |-> st.db.projects[project_id].name,
                         skipped |-> TRUE,
                         activity_score |-> activity_score,
                         min_activity_threshold |-> min_activity])] }
            ELSE { [db |-> out.db, results |-> Append(st.results, out.result)] :
                     out \in update_project_opportunity(st.db, project_id, failed) } :
            activity_score \in {calculate_activity_score(st.db.rows, project_id,
                                                         "batch_activity" \in failed)} }

RECURSIVE AnalyzeFrom(_, _, _, _)
AnalyzeFrom(st, ids, i, failures) ==
    IF i > Len(ids) THEN {st}
    ELSE UNION { AnalyzeFrom(next, ids, i + 1, failures) :
                   next \in AnalyzeProject(st, ids[i], failures[ids[i]]) }

\* OpportunityAnalyzer.analyze_all_projects: the database it leaves and the
\* list it returns; failures[id] are the database operations that fail while
\* project id is handled
analyze_all_projects(db, listing_failed, failures) ==
    { [db |-> st.db, results |-> SortDescending(st.results, Len(st.results))] :
        st \in AnalyzeFrom([db |-> db, results |-> << >>],
                           db_get_all_projects(db.projects, listing_failed), 1, failures) }

(***************************************************************************)
(* Specification SpecBatch: the tables hold some rows and projects, and    *)
(* analyze_all_projects runs once over them, database operations failing   *)
(* for some of the projects.                                               *)
(***************************************************************************)
\* rows of one kind stored: none, a few, or many
RowCounts == {0, 3, 8}

\* the database operations that fail while one project is handled
BatchFailures ==
    { {}, {"batch_activity"}, {"activity"}, {"sentiment"}, {"get_project"},
      {"update_project"}, {"add_alert"}, AnalyzedDataQueries \cup {"batch_activity"} }

\* the fields an earlier run of update_project_opportunity stored for a project
EarlierSnapshot ==
    [score |-> 75 * SCALE, roi_potential |-> "airdrop", roi_score |-> 60 * SCALE,
     worth_participating |-> 1]

\* table projects: Zeta, Orbit, and a third project that an earlier run
\* scored and that has no rows now, each active or not
BatchProjects ==
    { [id \in 1..3 |->
          IF id = 3
          THEN [f \in {"name", "is_active"} \cup DOMAIN EarlierSnapshot |->
                   IF f = "name" THEN Foo
                   ELSE IF f = "is_active" THEN active[id] ELSE EarlierSnapshot[f]]
          ELSE [name |-> <<Zeta, Orbit>>[id], is_active |-> active[id]]] :
        active \in { <<1, 1, 1>>, <<1, 1, 0>>, <<1, 0, 1>> } }

InitBatch ==
    /\ InitConfig
    /\ InitEngine
    /\ analyzed_data \in [Kinds -> RowCounts]
    /\ db_projects \in BatchProjects
    /\ snapshot = NoSnapshot
    /\ raw_data = << >>
    /\ alerts = << >>
    /\ call = [op |-> "none", done |-> FALSE]
    /\ analysis = EmptyAnalysis
    /\ priority_score = NoScore

\* analyzer.analyze_all_projects()
AnalyzeAllProjects ==
    /\ call.op = "none"
    /\ \E listing_failed \in BOOLEAN, failures \in [DOMAIN db_projects -> BatchFailures] :
          \E out \in analyze_all_projects(
                         [rows |-> analyzed_data, projects |-> db_projects,
                          alerts |-> alerts], listing_failed, failures) :
              /\ db_projects' = out.db.projects
              /\ alerts' = out.db.alerts
              /\ call' = [op |-> "analyze_all_projects", done |-> TRUE,
                          listing_failed |-> listing_failed, failures |-> failures,
                          before |-> db_projects, results |-> out.results]
    /\ UNCHANGED <<cfgVars, engVars, clsVars, analyzed_data, snapshot, raw_data>>

NextBatch == AnalyzeAllProjects

SpecBatch == InitBatch /\ [][NextBatch]_vars

(***************************************************************************)
(* Claims checked under SpecBatch                                          *)
(***************************************************************************)
Batched == call.op = "analyze_all_projects" /\ call.done

\* the active projects the batch ran over
BatchIds == {id \in DOMAIN call.before : call.before[id].is_active = 1}

\* the entries of the result for one project
EntriesOf(id) == {i \in 1..Len(call.results) : call.results[i].project_id = id}

\* the project was skipped for low activity
Skipped(id) == \E i \in EntriesOf(id) : "skipped" \in DOMAIN call.results[i]

\* a database operation that was executed for the project failed: the activity
\* query of the batch, a query of the scoring call, or the UPDATE of the row
FailedFor(id) ==
    \/ "batch_activity" \in call.failures[id]
    \/ ~Skipped(id) /\ "get_project" \in call.failures[id]
    \/ /\ ~Skipped(id)
       /\ "get_project" \notin call.failures[id]
       /\ call.failures[id] \cap (QueryExecutions \cup {"update_project"}) # {}

\* C17: the batch continues over failures: the result of analyze_all_projects
\* holds exactly one entry for each active project, the entry of a project
\* whose aggregation or update failed has an 'error' field, and every project
\* without a failure is analysed and, unless skipped for low activity, updated
\* with the score of its entry.
C17_BatchContinues ==
    (Batched /\ ~call.listing_failed) =>
        /\ Len(call.results) = Cardinality(BatchIds)
        /\ \A id \in BatchIds :
              /\ Cardinality(EntriesOf(id)) = 1
              /\ FailedFor(id) =>
                    \A i \in EntriesOf(id) : "error" \in DOMAIN call.results[i]
              /\ call.failures[id] = {} =>
                    \A i \in EntriesOf(id) :
                        /\ "error" \notin DOMAIN call.results[i]
                        /\ ~Skipped(id) =>
                              /\ "score" \in DOMAIN db_projects[id]
                              /\ db_projects[id].score = call.results[i].opportunity_score

\* the parts of C17 that hold: one entry for each active project, and the
\* projects without a failure analysed and updated whatever fails for the others
BatchOneEntryEach ==
    (Batched /\ ~call.listing_failed) =>
        /\ Len(call.results) = Cardinality(BatchIds)
        /\ \A id \in BatchIds :
              /\ Cardinality(EntriesOf(id)) = 1
              /\ call.failures[id] = {} =>
                    \A i \in EntriesOf(id) :
                        /\ "error" \notin DOMAIN call.results[i]
                        /\ ~Skipped(id) =>
                              /\ "score" \in DOMAIN db_projects[id]
                              /\ db_projects[id].score = call.results[i].opportunity_score

\* a failed UPDATE of the project row leaves an entry without 'error'
UpdateFailureSilent ==
    /\ Batched /\ ~call.listing_failed
    /\ \E id \in BatchIds :
          /\ call.failures[id] = {"update_project"}
          /\ \E i \in EntriesOf(id) :
                /\ "component_scores" \in DOMAIN call.results[i]
                /\ "error" \notin DOMAIN call.results[i]
          /\ "score" \notin DOMAIN db_projects[id]

(***************************************************************************)
(* Specification SpecHandle: handle_projects called on the classification  *)
(* of one message after another, the tables growing from call to call.     *)
(***************************************************************************)
\* most calls of handle_projects in a row
MaxHandled == 2

\* the message contents: candidates of confidence 0.64, 0.74, 0.8 and 0.82, a
\* medium-tier keyword, a high-tier keyword with an urgent category, a symbol,
\* a candidate named five times beside all five signal words
HandleTexts ==
    { <<"F","o","o"," ","a","i","r","d","r","o","p">>,
      <<"F","o","o"," ","a","i","r","d","r","o","p"," ","f","o","o">>,
      <<"n","e","w"," ","p","r","o","j","e","c","t",":"," ","F","o","o"," ","t","o","k","e","n"," ","l","a","u","n","c","h"," ","a","i","r","d","r","o","p"," ","w","h","i","t","e","l","i","s","t">>,
      <<"n","e","w"," ","p","r","o","j","e","c","t",":"," ","F","o","o"," ","t","o","k","e","n"," ","l","a","u","n","c","h"," ","f","o","o">>,
      <<"o","r","b","i","t"," ","u","p","d","a","t","e">>,
      <<"Z","e","t","a"," ","c","l","a","i","m"," ","d","e","a","d","l","i","n","e"," ","t","o","d","a","y">>,
      <<"$","Z","T","A">>,
      <<"n","e","w"," ","p","r","o","j","e","c","t",":"," ","F","o","o"," ","t","o","k","e","n"," ","l","a","u","n","c","h"," ","a","i","r","d","r","o","p"," ","w","h","i","t","e","l","i","s","t"," ","f","o","o"," ","f","o","o"," ","f","o","o"," ","f","o","o">> }

HandleChannels == {NoChannel, "orbit_news"}

HandleFailures == { {}, {"get_project_by_name"}, {"add_project"} }

InitHandle ==
    /\ InitConfig
    /\ InitEngine
    /\ analyzed_data = << >>
    /\ db_projects \in { << >>, InitialDbProjects }
    /\ snapshot = NoSnapshot
    /\ raw_data = << >>
    /\ alerts = << >>
    /\ call = [op |-> "none", handled |-> 0]
    /\ analysis = EmptyAnalysis
    /\ priority_score = NoScore

\* the part of process_raw_data up to and including
\* self.handle_projects(analysis, content, raw_data_id)
HandleProjects ==
    /\ call.handled < MaxHandled
    /\ \E content \in HandleTexts, channel \in HandleChannels, failed \in HandleFailures :
          \E a \in {categorize_text(content, channel)} :
             \E score \in {calculate_priority_score(a)} :
                \E db \in handle_projects([projects |-> db_projects, analyzed |-> analyzed_data,
                                           alerts |-> alerts, raised |-> FALSE],
                                          a, score, content, call.handled + 1, failed) :
                    /\ analysis' = a
                    /\ priority_score' = score
                    /\ db_projects' = db.projects
                    /\ analyzed_data' = db.analyzed
                    /\ alerts' = db.alerts
                    /\ call' = [op |-> "handle_projects", handled |-> call.handled + 1,
                                raw_data_id |-> call.handled + 1, failed |-> failed,
                                content |-> content, channel |-> channel,
                                before |-> [projects |-> db_projects,
                                            analyzed |-> analyzed_data, alerts |-> alerts]]
    /\ UNCHANGED <<cfgVars, engVars, snapshot, raw_data>>

NextHandle == HandleProjects

SpecHandle == InitHandle /\ [][NextHandle]_vars

(***************************************************************************)
(* Claims checked under SpecHandle                                         *)
(***************************************************************************)
Handled == call.op = "handle_projects"

\* the names of the rows of a projects table
NamesIn(tbl) == {tbl[i].name : i \in DOMAIN tbl}

\* the rows of table projects the call created for a name
CreatedFor(name) ==
    {i \in (Len(call.before.projects) + 1)..Len(db_projects) : db_projects[i].name = name}

\* a candidate with no project of its name is created exactly from confidence 0.7
CreatedFromSeventy ==
    (Handled /\ call.failed = {}) =>
        \A j \in 1..Len(analysis.new_projects) :
            LET candidate == analysis.new_projects[j]
            IN  candidate.name \notin NamesIn(call.before.projects) =>
                    (CreatedFor(candidate.name) # {} <=> candidate.confidence >= 70)

\* C21: a discovered candidate with no existing project of that name is
\* created as a project if and only if its confidence is at least 0.7, and the
\* created project is marked worth_participating if and only if its confidence
\* is at least 0.8.
C21_PromotionThresholds ==
    (Handled /\ call.failed = {}) =>
        \A j \in 1..Len(analysis.new_projects) :
            LET candidate == analysis.new_projects[j]
            IN  candidate.name \notin NamesIn(call.before.projects) =>
                    /\ CreatedFor(candidate.name) # {} <=> candidate.confidence >= 70
                    /\ \A i \in CreatedFor(candidate.name) :
                          db_projects[i].worth_participating = 1
                              <=> candidate.confidence >= 80

(***************************************************************************)
(* Specification SpecRescore: rows are stored and projects are scored in   *)
(* any order, one call of calculate_opportunity_score after another on the *)
(* same analyzer.                                                          *)
(***************************************************************************)
\* most operations in a row
MaxCalls == 3

\* rows of one kind stored at the start
StoredCounts == {0, 4}

\* no snapshot returned yet for any project and table contents
NothingSeen == [key \in {} |-> NoSnapshot]

InitRescore ==
    /\ InitConfig
    /\ InitEngine
    /\ analyzed_data \in [Kinds -> StoredCounts]
    /\ db_projects = InitialDbProjects
    /\ snapshot = NoSnapshot
    /\ raw_data = << >>
    /\ alerts = << >>
    /\ call = [op |-> "none", calls |-> 0, seen |-> NothingSeen]
    /\ analysis = EmptyAnalysis
    /\ priority_score = NoScore

\* db_utils.add_analyzed_data between two scoring calls
StoreRow ==
    /\ call.calls < MaxCalls
    /\ \E k \in Kinds : analyzed_data' = [analyzed_data EXCEPT ![k] = @ + 1]
    /\ call' = [op |-> "add_analyzed_data", calls |-> call.calls + 1, seen |-> call.seen]
    /\ UNCHANGED <<cfgVars, engVars, clsVars, db_projects, snapshot, raw_data, alerts>>

\* one more call of calculate_opportunity_score; seen keeps the first snapshot
\* returned for the project over the rows stored
Rescore ==
    /\ call.calls < MaxCalls
    /\ \E pid \in ScoredIds :
         \E urgent \in TopTen(UrgentRows(analyzed_data, pid)) :
           \E result \in {calculate_opportunity_score(analyzed_data, db_projects, pid,
                                                      {}, urgent)} :
              /\ snapshot' = result
              /\ call' = [op |-> "calculate_opportunity_score", project_id |-> pid,
                          calls |-> call.calls + 1,
                          repeat |-> <<pid, analyzed_data>> \in DOMAIN call.seen,
                          after |-> call.op,
                          before |-> [rows |-> analyzed_data, projects |-> db_projects,
                                      alerts |-> alerts],
                          seen |-> IF <<pid, analyzed_data>> \in DOMAIN call.seen
                                   THEN call.seen
                                   ELSE [key \in DOMAIN call.seen \cup {<<pid, analyzed_data>>} |->
                                            IF key \in DOMAIN call.seen THEN call.seen[key]
                                            ELSE result]]
    /\ UNCHANGED <<cfgVars, engVars, clsVars, analyzed_data, db_projects, raw_data, alerts>>

NextRescore == StoreRow \/ Rescore

SpecRescore == InitRescore /\ [][NextRescore]_vars

(***************************************************************************)
(* Claims checked under SpecRescore                                        *)
(***************************************************************************)
Rescored == call.op = "calculate_opportunity_score"

C23_ConfidenceInUnitInterval ==
    Handled =>
        /\ \A i \in 1..Len(analysis.projects) :
              0 <= analysis.projects[i].confidence /\ analysis.projects[i].confidence <= 100
        /\ \A j \in 1..Len(analysis.new_projects) :
              /\ 0 <= analysis.new_projects[j].confidence
              /\ analysis.new_projects[j].confidence <= 100

\* a candidate named five times beside five signal words, in a message from a
\* tracked channel: both boosts are cut off at 0.2
C23_Witness ==
    /\ Handled
    /\ \E i \in 1..Len(analysis.projects) : analysis.projects[i].confidence = 100
    /\ \E j \in 1..Len(analysis.new_projects) :
          /\ analysis.new_projects[j].confidence = 100
          /\ CountFrom(preprocess_text(call.content), analysis.new_projects[j].name, 1) = 5

\* the terms counted as nearby signal words
SignalWords ==
    { <<"l","a","u","n","c","h">>, <<"t","o","k","e","n">>, <<"a","i","r","d","r","o","p">>, <<"w","h","i","t","e","l","i","s","t">>, <<"p","r","o","j","e","c","t">> }

\* the text detect_new_projects is given for the message handled
DetectedText == preprocess_text(call.content)

\* C24: the confidence of a discovered candidate is 0.6 plus
\* min(0.2, 0.05 x extra_mentions) plus min(0.2, 0.04 x nearby_signal_words),
\* extra_mentions the occurrences of the name beyond the first and
\* nearby_signal_words the signal words present in the text.
C24_CandidateConfidence ==
    Handled =>
        \A j \in 1..Len(analysis.new_projects) :
            LET candidate == analysis.new_projects[j]
                extra_mentions == CountFrom(DetectedText, lower(candidate.name), 1) - 1
                nearby_signal_words ==
                    Cardinality({w \in SignalWords : Contains(DetectedText, w)})
            IN  candidate.confidence =
                    60 + Min(20, 5 * extra_mentions) + Min(20, 4 * nearby_signal_words)

\* the part of C24 that holds: the boost for the signal words, and the base
\* of 0.6 for a name that stands once in the text
SingleMentionConfidence ==
    Handled =>
        \A j \in 1..Len(analysis.new_projects) :
            LET candidate == analysis.new_projects[j]
            IN  CountFrom(DetectedText, lower(candidate.name), 1) = 1 =>
                    candidate.confidence =
                        60 + Min(20, 4 * Cardinality({w \in SignalWords :
                                                         Contains(DetectedText, w)}))

\* the alerts the batch added for a project
AlertsFor(id) == {i \in 1..Len(alerts) : alerts[i].project_id = id}

\* the projects update_project_opportunity handled without a failure
UpdatedIds ==
    {id \in BatchIds : /\ call.failures[id] = {}
                       /\ \E i \in EntriesOf(id) : "component_scores" \in DOMAIN call.results[i]}

\* C26: after update_project_opportunity succeeds for a project the stored
\* worth_participating flag says whether the score is at least 70, and the call
\* has added one opportunity alert exactly when the score is at least 70, of
\* priority high from 80 and medium below; below 70 it adds no alert.
C26_FlagAndAlertThresholds ==
    (Batched /\ ~call.listing_failed) =>
        \A id \in UpdatedIds : \A i \in EntriesOf(id) :
            LET score == call.results[i].opportunity_score
            IN  /\ db_projects[id].worth_participating = 1 <=> score >= 70 * SCALE
                /\ score < 70 * SCALE => AlertsFor(id) = {}
                /\ score >= 70 * SCALE =>
                      /\ Cardinality(AlertsFor(id)) = 1
                      /\ \A k \in AlertsFor(id) :
                            /\ alerts[k].alert_type = "opportunity"
                            /\ alerts[k].priority =
                                   IF score >= 80 * SCALE THEN "high" ELSE "medium"

\* one batch with a project in each band: below 70, from 70, from 80
C26_Witness ==
    /\ Batched /\ ~call.listing_failed
    /\ \E id \in UpdatedIds : \E i \in EntriesOf(id) :
          call.results[i].opportunity_score < 70 * SCALE /\ AlertsFor(id) = {}
    /\ \E id \in UpdatedIds : \E k \in AlertsFor(id) : alerts[k].priority = "high"

\* a project scored between 70 and 80 gets an alert of priority medium
MediumAlertRaised ==
    /\ Batched /\ ~call.listing_failed
    /\ \E id \in UpdatedIds : \E k \in AlertsFor(id) : alerts[k].priority = "medium"

\* C27: analyze_all_projects leaves the stored score and worth_participating
\* flag of every project whose activity score is below min_activity as they
\* were and adds no alert for it, and the list it returns is in order of
\* non-increasing opportunity_score, an entry without a score counting as 0.
C27_SkippedUntouchedAndSorted ==
    (Batched /\ ~call.listing_failed) =>
        /\ \A id \in BatchIds :
              Skipped(id) =>
                  /\ db_projects[id] = call.before[id]
                  /\ AlertsFor(id) = {}
        /\ \A i, j \in 1..Len(call.results) :
              i < j => SortKey(call.results[i]) >= SortKey(call.results[j])

\* the first project of the table is skipped and listed behind a scored one,
\* and a skipped project keeps the snapshot an earlier run stored
C27_Witness ==
    /\ Batched /\ ~call.listing_failed
    /\ Skipped(1) /\ 3 \in BatchIds /\ Skipped(3)
    /\ db_projects[3].score = EarlierSnapshot.score
    /\ db_projects[3].worth_participating = 1
    /\ Len(call.results) = 3
    /\ SortKey(call.results[1]) > 0
    /\ call.results[2].project_id = 1

\* the rows of analyzed_data and of alerts the call added
NewRecords == Len(analyzed_data) - Len(call.before.analyzed)

NewAlerts == Len(alerts) - Len(call.before.alerts)

\* a matched project that is not in the database and has confidence below 0.7
LowAndMissing(project) ==
    project.name \notin NamesIn(call.before.projects) /\ project.confidence < 70

\* the matched projects and the candidates that qualify for a record
Qualifying ==
    Cardinality({i \in 1..Len(analysis.projects) : ~LowAndMissing(analysis.projects[i])})
    + Cardinality({j \in 1..Len(analysis.new_projects) :
                      analysis.new_projects[j].confidence >= 70})

\* C28: handle_projects stores a record for a matched project only if a
\* project of that exact name is in the database or the confidence is at least
\* 0.7; a matched project missing from the database with lower confidence gets
\* no project row, no record and no alert.
C28_LowConfidenceSkipped ==
    Handled =>
        /\ NewRecords <= Qualifying
        /\ \A i \in 1..Len(analysis.projects) :
              LowAndMissing(analysis.projects[i]) =>
                  analysis.projects[i].name \notin NamesIn(db_projects)
        /\ Qualifying = 0 =>
              /\ db_projects = call.before.projects
              /\ NewRecords = 0
              /\ NewAlerts = 0

\* Orbit matched by its keyword in the medium tier (0.6) and not in the
\* database: nothing is stored
C28_Witness ==
    /\ Handled /\ call.failed = {}
    /\ Len(analysis.projects) = 1
    /\ analysis.projects[1].name = Orbit /\ analysis.projects[1].confidence = 60
    /\ LowAndMissing(analysis.projects[1])
    /\ Qualifying = 0 /\ NewRecords = 0 /\ NewAlerts = 0

\* a matched project of low confidence that is in the database gets its record
LowConfidenceKnownStored ==
    /\ Handled /\ call.failed = {}
    /\ Len(analysis.projects) = 1 /\ analysis.projects[1].confidence = 60
    /\ analysis.projects[1].name \in NamesIn(call.before.projects)
    /\ NewRecords = 1

(***************************************************************************)
(* Specification SpecReconfigure: one classifier is constructed and a      *)
(* message is classified, either at once or after a project was added to   *)
(* the configuration.                                                      *)
(***************************************************************************)
Nova == <<"N","o","v","a">>

NovaSymbol == <<"$","N","O","V","A">>

NovaContract ==
    <<"0","x","C","d","3","4","C","d","3","4","C","d","3","4","C","d","3","4","C","d","3","4","C","d","3","4","C","d","3","4","C","d","3","4","C","d","3","4","C","d","3","4">>

\* the project added after the classifier was constructed
NovaProject ==
    [name |-> Nova, symbol |-> <<"N","O","V","A">>,
     official_channels |-> <<"nova_official">>, partner_channels |-> << >>,
     keywords |-> << <<"n","o","v","a">> >>, contracts |-> <<NovaContract>>]

ReconfigurePhrases ==
    << <<"n","o","v","a"," ","u","p","d","a","t","e">>,
       <<"$","N","O","V","A">>,
       NovaContract,
       <<"N","o","v","a"," ","a","i","r","d","r","o","p">>,
       <<"$","Z","T","A">>,
       <<"F","o","o"," ","a","i","r","d","r","o","p">>,
       <<"o","r","b","i","t">> >>

\* one phrase, or two joined by a space
ReconfigureTexts ==
    { ReconfigurePhrases[i] : i \in DOMAIN ReconfigurePhrases }
    \cup { ReconfigurePhrases[i] \o <<" ">> \o ReconfigurePhrases[j] :
             i, j \in DOMAIN ReconfigurePhrases }

ReconfigureChannels == {NoChannel, "nova_official", "zeta_official"}

InitReconfigure ==
    /\ InitConfig
    /\ InitEngine
    /\ InitDb
    /\ call = [op |-> "none", added |-> FALSE]
    /\ analysis = EmptyAnalysis
    /\ priority_score = NoScore

\* project_config.add_project(priority, NovaProject) after construction
AddTrackedProject ==
    /\ call.op = "none"
    /\ \E k \in 1..Len(Tiers) : projects' = add_project(projects, Tiers[k], NovaProject)
    /\ call' = [op |-> "add_project", added |-> TRUE]
    /\ UNCHANGED <<tracked_channels, tracked_keywords, engVars, clsVars, dbVars>>

\* classifier.categorize_text(text, channel) and calculate_priority_score
ClassifyAgain ==
    /\ call.op # "categorize_text"
    /\ \E text \in ReconfigureTexts, channel \in ReconfigureChannels :
          \E a \in {categorize_text(text, channel)} :
              /\ analysis' = a
              /\ priority_score' = calculate_priority_score(a)
              /\ call' = [op |-> "categorize_text", added |-> call.added,
                          text |-> text, channel |-> channel]
    /\ UNCHANGED <<cfgVars, engVars, dbVars>>

NextReconfigure == AddTrackedProject \/ ClassifyAgain

SpecReconfigure == InitReconfigure /\ [][NextReconfigure]_vars

(***************************************************************************)
(* Claims checked under SpecReconfigure                                    *)
(***************************************************************************)
\* a message classified after the project was added
ClassifiedAfterAdd == call.op = "categorize_text" /\ call.added

\* the entries of the classification that name the added project
NovaEntries == {i \in 1..Len(analysis.projects) : analysis.projects[i].name = Nova}

\* the channel and keyword tables are those of construction: the added
\* project is matched neither by its channel nor by its keyword and its
\* channel has no weight, while the contract rule and the exclusion of tracked
\* names from the candidates read the project list of the moment
StaleChannelsLiveProjects ==
    ClassifiedAfterAdd =>
        /\ \A i \in NovaEntries : analysis.projects[i].source = "contract"
        /\ call.channel = "nova_official" => analysis.source_weight = DefaultWeight
        /\ Contains(call.text, NovaContract) => NovaEntries # {}
        /\ \A j \in 1..Len(analysis.new_projects) :
              lower(analysis.new_projects[j].name) # lower(Nova)

\* C29: after a project is added to the configuration following
\* construction, identify_projects does not match it by channel or keyword and
\* get_source_weight does not return its channel weight, while the symbol and
\* contract rules and the tracked-name exclusion of detect_new_projects do
\* take it into account.
C29_StaleTablesLiveRules ==
    ClassifiedAfterAdd =>
        /\ \A i \in NovaEntries : analysis.projects[i].source \notin {"channel", "keyword"}
        /\ call.channel = "nova_official" => analysis.source_weight = DefaultWeight
        /\ Contains(call.text, NovaContract) =>
              \E i \in NovaEntries : analysis.projects[i].source = "contract"
        /\ (Contains(call.text, NovaSymbol) /\ ~Contains(call.text, NovaContract)) =>
              \E i \in NovaEntries : analysis.projects[i].source = "symbol"
        /\ \A j \in 1..Len(analysis.new_projects) :
              lower(analysis.new_projects[j].name) # lower(Nova)

\* before the project is added its name is a candidate
NovaCandidateBefore ==
    /\ call.op = "categorize_text" /\ ~call.added
    /\ \E j \in 1..Len(analysis.new_projects) :
          lower(analysis.new_projects[j].name) = lower(Nova)

(***************************************************************************)
(* AutomationEngine: scheduling and the worker threads                     *)
(***************************************************************************)
\* the number of schedule_task calls and of worker threads
MaxTasks == 3
MaxWorkers == 2

NoStatus == "None"
NoTime == "None"
NoDay == -1
NoTask == 0

\* an execution_time in the future of the call
Later == "later"
ExecutionTimes == {NoTime, Later}

\* the task dicts the create_*_task methods and direct callers build: the
\* two types with a daily limit, a blacklisted project, a platform without an
\* implementation, a script that does not exist
Task(type, project_name, platform, script_exists) ==
    [ type |-> type, project_name |-> project_name, platform |-> platform,
      blockchain |-> "ethereum", script_exists |-> script_exists,
      status |-> NoStatus, scheduled_at |-> NoDay, execution_time |-> NoTime,
      completed_at |-> NoDay, executed_at |-> NoDay ]

TaskInputs ==
    { Task("social_engagement", "Zeta", "twitter", TRUE),
      Task("social_engagement", "Rugpull", "twitter", TRUE),
      Task("social_engagement", "Zeta", "telegram", TRUE),
      Task("social_engagement", "Zeta", "twitter", FALSE),
      Task("transaction", "Zeta", "twitter", TRUE) }

\* x in list
InList(x, list) == \E j \in 1..Len(list) : list[j] = x

\* reset_daily_counters: <<daily_social_actions, daily_transactions,
\* last_reset_date>> after the call
reset_daily_counters ==
    IF today > last_reset_date
    THEN <<0, 0, today>>
    ELSE <<daily_social_actions, daily_transactions, last_reset_date>>

\* schedule_task(task, execution_time); the task dict becomes tasks[Len + 1].
\* A rejected task is left without a status.
ScheduleTask(task, execution_time) ==
    LET i == Len(tasks) + 1 IN
    /\ Len(tasks) < MaxTasks
    /\ IF InList(task.project_name, config.blacklisted_projects)
       THEN /\ tasks' = Append(tasks, task)
            /\ UNCHANGED <<daily_social_actions, daily_transactions, last_reset_date,
                           task_history, task_queue, timers>>
       ELSE \E counters \in {reset_daily_counters} :
            /\ daily_social_actions' = counters[1]
            /\ daily_transactions' = counters[2]
            /\ last_reset_date' = counters[3]
            /\ IF \/ /\ task.type = "social_engagement"
                     /\ counters[1] >= config.execution_limits.max_daily_social_actions
                  \/ /\ task.type = "transaction"
                     /\ counters[2] >= config.execution_limits.max_daily_transactions
               THEN /\ tasks' = Append(tasks, task)
                    /\ UNCHANGED <<task_history, task_queue, timers>>
               ELSE /\ tasks' = Append(tasks, [task EXCEPT !.status = "scheduled",
                                                           !.scheduled_at = today,
                                                           !.execution_time = execution_time])
                    /\ task_history' = Append(task_history, i)
                    /\ IF execution_time # NoTime /\ execution_time = Later
                       THEN /\ timers' = timers \cup {i}
                            /\ UNCHANGED task_queue
                       ELSE /\ task_queue' = Append(task_queue, i)
                            /\ UNCHANGED timers
    /\ UNCHANGED <<today, config, running, workers>>
    /\ UNCHANGED <<cfgVars, call, clsVars, dbVars>>

\* the threading.Timer of a delayed task fires: task_queue.put(task)
TimerFires(i) ==
    /\ i \in timers
    /\ timers' = timers \ {i}
    /\ task_queue' = Append(task_queue, i)
    /\ UNCHANGED <<today, config, running, workers, daily_social_actions,
                   daily_transactions, last_reset_date, task_history, tasks>>
    /\ UNCHANGED <<cfgVars, call, clsVars, dbVars>>

\* a worker thread at the top of its loop
Idle == [pc |-> "get", task |-> NoTask, loaded |-> 0]

\* start_workers(num_workers)
StartWorkers(num_workers) ==
    /\ ~running
    /\ running' = TRUE
    /\ workers' = workers \o [w \in 1..num_workers |-> Idle]
    /\ UNCHANGED <<today, config, task_queue, daily_social_actions, daily_transactions,
                   last_reset_date, task_history, tasks, timers>>
    /\ UNCHANGED <<cfgVars, call, clsVars, dbVars>>

\* _worker_thread: task = self.task_queue.get()
WorkerGet(w) ==
    /\ running
    /\ workers[w].pc = "get"
    /\ task_queue # << >>
    /\ workers' = [workers EXCEPT ![w] = [pc |-> "execute", task |-> Head(task_queue), loaded |-> 0]]
    /\ task_queue' = Tail(task_queue)
    /\ UNCHANGED <<today, config, running, daily_social_actions, daily_transactions,
                   last_reset_date, task_history, tasks, timers>>
    /\ UNCHANGED <<cfgVars, call, clsVars, dbVars>>

\* the counter the execution of the task increments, or "None":
\* _execute_social_task increments for platform twitter and
\* _execute_transaction_task always, both after the script was found
CounterOf(task) ==
    IF ~task.script_exists THEN "None"
    ELSE IF task.type = "social_engagement" /\ task.platform = "twitter" THEN "daily_social_actions"
    ELSE IF task.type = "transaction" THEN "daily_transactions"
    ELSE "None"

\* self.daily_social_actions += 1 (self.daily_transactions += 1), first half:
\* the thread reads the attribute
WorkerLoad(w) ==
    /\ workers[w].pc = "execute"
    /\ CounterOf(tasks[workers[w].task]) # "None"
    /\ workers' = [workers EXCEPT ![w].pc = "store",
                                  ![w].loaded = IF CounterOf(tasks[workers[w].task]) = "daily_social_actions"
                                                THEN daily_social_actions ELSE daily_transactions]
    /\ UNCHANGED <<today, config, running, task_queue, daily_social_actions, daily_transactions,
                   last_reset_date, task_history, tasks, timers>>
    /\ UNCHANGED <<cfgVars, call, clsVars, dbVars>>

\* second half: the thread writes the value it read, plus one
WorkerStore(w) ==
    /\ workers[w].pc = "store"
    /\ workers' = [workers EXCEPT ![w].pc = "run"]
    /\ IF CounterOf(tasks[workers[w].task]) = "daily_social_actions"
       THEN /\ daily_social_actions' = workers[w].loaded + 1
            /\ UNCHANGED daily_transactions
       ELSE /\ daily_transactions' = workers[w].loaded + 1
            /\ UNCHANGED daily_social_actions
    /\ UNCHANGED <<today, config, running, task_queue, last_reset_date, task_history,
                   tasks, timers>>
    /\ UNCHANGED <<cfgVars, call, clsVars, dbVars>>

\* the results of subprocess.run for a script
ReturnCodes == {0, 1}

\* how the _execute_*_task call of a task can end, as <<status, the script
\* was run>>: a raised exception makes the status failed
Outcomes(task) ==
    LET ran == { <<IF rc = 0 THEN "completed" ELSE "failed", TRUE>> : rc \in ReturnCodes } IN
    IF task.type \notin {"social_engagement", "node_setup", "transaction", "form_submission"}
    THEN {<<"completed", FALSE>>}
    ELSE IF ~task.script_exists THEN {<<"failed", FALSE>>}
    ELSE IF task.type = "social_engagement"
    THEN IF task.platform = "twitter" THEN ran
         ELSE IF task.platform \in {"telegram", "discord"} THEN {<<"completed", FALSE>>}
         ELSE {<<"failed", FALSE>>}
    ELSE IF task.type = "transaction"
    THEN IF task.blockchain \in config.wallets THEN ran ELSE {<<"failed", FALSE>>}
    ELSE ran

\* _worker_thread: the rest of the dispatched call, the status and the
\* history entry
WorkerFinish(w) ==
    LET i == workers[w].task IN
    /\ \/ workers[w].pc = "run"
       \/ workers[w].pc = "execute" /\ CounterOf(tasks[i]) = "None"
    /\ \E outcome \in Outcomes(tasks[i]) :
          tasks' = [tasks EXCEPT ![i].status = outcome[1],
                                 ![i].completed_at = IF outcome[1] = "completed" THEN today ELSE @,
                                 ![i].executed_at = IF outcome[2] THEN today ELSE @]
    /\ task_history' = Append(task_history, i)
    /\ workers' = [workers EXCEPT ![w] = Idle]
    /\ UNCHANGED <<today, config, running, task_queue, daily_social_actions, daily_transactions,
                   last_reset_date, timers>>
    /\ UNCHANGED <<cfgVars, call, clsVars, dbVars>>

\* the date changes
Midnight ==
    /\ today < FirstDay + MaxDays
    /\ today' = today + 1
    /\ UNCHANGED <<config, running, workers, task_queue, daily_social_actions,
                   daily_transactions, last_reset_date, task_history, tasks, timers>>
    /\ UNCHANGED <<cfgVars, call, clsVars, dbVars>>

InitEngineSpec ==
    /\ InitConfig
    /\ InitEngine
    /\ InitDb
    /\ call = [op |-> "none"]
    /\ analysis = EmptyAnalysis
    /\ priority_score = NoScore

NextEngine ==
    \/ \E task \in TaskInputs, execution_time \in ExecutionTimes : ScheduleTask(task, execution_time)
    \/ \E i \in timers : TimerFires(i)
    \/ \E num_workers \in 1..MaxWorkers : StartWorkers(num_workers)
    \/ \E w \in 1..Len(workers) : WorkerGet(w)
    \/ \E w \in 1..Len(workers) : WorkerLoad(w)
    \/ \E w \in 1..Len(workers) : WorkerStore(w)
    \/ \E w \in 1..Len(workers) : WorkerFinish(w)
    \/ Midnight

SpecEngine == InitEngineSpec /\ [][NextEngine]_vars

(***************************************************************************)
(* Claims checked under SpecEngine                                         *)
(***************************************************************************)
Days == FirstDay..(FirstDay + MaxDays)

Blacklisted(i) == InList(tasks[i].project_name, config.blacklisted_projects)

\* the tasks of a type that schedule_task accepted on day d and whose script
\* was run on day d
AcceptedAndExecuted(type, d) ==
    { i \in 1..Len(tasks) : /\ tasks[i].type = type
                             /\ tasks[i].status # NoStatus
                             /\ tasks[i].scheduled_at = d
                             /\ tasks[i].executed_at = d }

\* C30: on no day are more social_engagement tasks accepted and executed
\* than max_daily_social_actions, nor more transaction tasks than
\* max_daily_transactions, and no task of a blacklisted project is on the queue
C30_DailyLimitsAndBlacklist ==
    /\ \A d \in Days :
          /\ Cardinality(AcceptedAndExecuted("social_engagement", d))
                <= config.execution_limits.max_daily_social_actions
          /\ Cardinality(AcceptedAndExecuted("transaction", d))
                <= config.execution_limits.max_daily_transactions
    /\ \A j \in 1..Len(task_queue) : ~Blacklisted(task_queue[j])

\* the blacklist half on its own: a task of a blacklisted project is left
\* without a status and reaches neither the history, a timer, the queue nor
\* a worker
BlacklistedNeverQueued ==
    \A i \in 1..Len(tasks) :
       Blacklisted(i) =>
          /\ tasks[i].status = NoStatus
          /\ ~InList(i, task_history)
          /\ i \notin timers
          /\ ~InList(i, task_queue)
          /\ \A w \in 1..Len(workers) : workers[w].task # i

\* reachable: schedule_task was called for a blacklisted project
BlacklistedOffered == \E i \in 1..Len(tasks) : Blacklisted(i)

\* the counters never exceed the number of executions that incremented them
\* (they can fall short of it: two workers can read the same value)
CountersAtMostExecutions ==
    /\ daily_social_actions <= Cardinality({ i \in 1..Len(tasks) : tasks[i].type = "social_engagement" /\ tasks[i].status # NoStatus })
    /\ daily_transactions <= Cardinality({ i \in 1..Len(tasks) : tasks[i].type = "transaction" /\ tasks[i].status # NoStatus })

\* reachable: two social tasks were executed on the day of the last reset
\* and the counter shows one
LostIncrement ==
    /\ last_reset_date = today
    /\ \A w \in 1..Len(workers) : workers[w].pc = "get"
    /\ Cardinality({ i \in 1..Len(tasks) : tasks[i].type = "social_engagement"
                                            /\ tasks[i].executed_at = today }) = 2
    /\ \A i \in 1..Len(tasks) : tasks[i].executed_at \in {NoDay, today}
    /\ daily_social_actions = 1

====
